---------------------------- MODULE Spec2Model ----------------------------
(***************************************************************************)
(* A model of the WaveRiderSDR signal-processing core                      *)
(* (src/waverider_common.py) and of the two applications that drive it     *)
(* (src/waverider_sdr.py, src/waverider_web.py).                           *)
(*                                                                         *)
(* Numbers.  The program computes in IEEE doubles.  Here a dB value held   *)
(* in the program's state is a fixed-point number in tenths of a dB        *)
(* (deci-dB), and a result that leaves the grid is rounded to the nearest  *)
(* grid point.  A float is a record [nan, v]: nan says the value is NaN    *)
(* (numpy's mean of an empty block), v is the value in deci-dB otherwise.  *)
(* Block powers and thresholds given as inputs are whole dB.               *)
(***************************************************************************)
EXTENDS Integers, Sequences, FiniteSets, TLC

VARIABLES
    demod,      \* the demodulator instance (AudioDemodulator and subclasses)
    ev,         \* the last call made: operation, argument, what it returned
    hist,       \* history of the demodulator instance since its construction
                \* (kept by the call-by-call specifications only)
    scen,       \* the scenario being played, for the scripted specifications
    wf,         \* the waterfall settings and peak-hold buffer (WaterfallSettings)
    app,        \* the application's own fields (desktop window or web application)
    morse       \* the Morse decoder (MorseDecoder)

vars == <<demod, ev, hist, scen, wf, app, morse>>

----------------------------------------------------------------------------
(* Floats *)

Fl(v) == [nan |-> FALSE, v |-> v]

NaN == [nan |-> TRUE, v |-> 0]

\* whole dB to deci-dB
Deci(db) == db * 10

\* a / b rounded to the nearest integer (b > 0)
RoundDiv(a, b) == (2 * a + b) \div (2 * b)

\* x > y for a float x and a deci-dB number y: every comparison with NaN is false
FGt(x, y) == (~x.nan) /\ x.v > y

FLt(x, y) == (~x.nan) /\ x.v < y

\* numpy.clip(x, lo, hi) on whole numbers
Clip(x, lo, hi) == IF x < lo THEN lo ELSE IF x > hi THEN hi ELSE x

----------------------------------------------------------------------------
(* AudioDemodulator: construction and squelch *)

\* the default of __init__'s squelch_threshold, in dB
DefaultSquelchThreshold == -50

\* self.smoothed_power at construction, in dB
InitialSmoothedPower == -100

\* self.squelch_hysteresis, in dB
SquelchHysteresis == 3

\* self.squelch_alpha = 0.1, in tenths
SquelchAlphaTenths == 1

\* the ends of set_squelch's clip, in dB
SquelchMin == -100

SquelchMax == 0

\* The sample rates the applications offer (rate_map), and their audio rate, in Hz
SampleRates == {2400000, 2048000, 1024000}

AudioRate == 48000

Kinds == {"FM", "AM", "USB", "LSB"}

\* AudioDemodulator.__init__ (through the subclass constructors): int() truncates
\* the ratio; nothing is validated, nothing is raised.
NewDemodulator(id, kind, sample_rate, audio_rate) ==
    [ id |-> id,
      kind |-> kind,
      sample_rate |-> sample_rate,
      audio_rate |-> audio_rate,
      decimation |-> sample_rate \div audio_rate,
      squelch_threshold |-> DefaultSquelchThreshold,
      squelch_enabled |-> TRUE,
      smoothed_power |-> Fl(Deci(InitialSmoothedPower)),
      last_signal_detected |-> FALSE,
      last_phase |-> 0 ]

\* The block powers fed to detect_signal, in dB: 10*log10(mean(|x|^2) + 1e-10) is
\* never below -100.
Powers == {-100, -97, -53, -50, -47, 0}

\* power_db of a block: NaN for the empty block (numpy's mean of nothing)
PowerDb(blk) == IF blk.n = 0 THEN NaN ELSE Fl(Deci(blk.pwr))

\* Smooth without memory: the smoothed power is the block's power
SmoothNoMemory(p, s) == p

\* the exponential smoothing of detect_signal
Smooth(p, s) ==
    IF p.nan \/ s.nan THEN NaN
    ELSE Fl(RoundDiv(SquelchAlphaTenths * p.v + (10 - SquelchAlphaTenths) * s.v, 10))

\* EffectiveThreshold without the hysteresis margin
EffectiveThresholdNoHysteresis(d) == Deci(d.squelch_threshold)

\* the threshold detect_signal compares with, in deci-dB
EffectiveThreshold(d) ==
    IF d.last_signal_detected
    THEN Deci(d.squelch_threshold - SquelchHysteresis)
    ELSE Deci(d.squelch_threshold)

\* GateDecision comparing with >= instead of >
GateDecisionGe(d) ==
    IF d.squelch_enabled
    THEN (~d.smoothed_power.nan) /\ d.smoothed_power.v >= EffectiveThreshold(d)
    ELSE TRUE

\* GateDecision that compares also when squelch is disabled
GateDecisionAlwaysCompares(d) == FGt(d.smoothed_power, EffectiveThreshold(d))

\* the value detect_signal returns, from the demodulator with the power smoothed
GateDecision(d) ==
    IF d.squelch_enabled
    THEN FGt(d.smoothed_power, EffectiveThreshold(d))
    ELSE TRUE

\* AudioDemodulator.detect_signal: the demodulator after the call; the value
\* returned is its last_signal_detected.
detect_signal(d, blk) ==
    LET s == [d EXCEPT !.smoothed_power = Smooth(PowerDb(blk), d.smoothed_power)]
    IN  [s EXCEPT !.last_signal_detected = GateDecision(s)]

\* set_squelch storing its argument as given
set_squelch_as_given(d, threshold_db) == [d EXCEPT !.squelch_threshold = threshold_db]

\* AudioDemodulator.set_squelch
set_squelch(d, threshold_db) ==
    [d EXCEPT !.squelch_threshold = Clip(threshold_db, SquelchMin, SquelchMax)]

\* AudioDemodulator.enable_squelch
enable_squelch(d, enabled) == [d EXCEPT !.squelch_enabled = enabled]

----------------------------------------------------------------------------
(* WaterfallSettings: a frame is a sequence of dB values, one per FFT bin.    *)
(* An input frame holds whole dB; a processed frame and the peak buffer hold  *)
(* deci-dB; contrast is held in tenths, peak_decay in hundredths.             *)

\* self.peak_decay = 0.95, in hundredths
PeakDecayPercent == 95

\* the least range set_range keeps between min_db and max_db, in dB
MinRange == 5

\* the ends of set_contrast's clip, in tenths (0.1 and 3.0)
ContrastMin == 1

ContrastMax == 30

\* the ends of set_brightness's clip, in dB
BrightnessMin == -50

BrightnessMax == 50

NoBuffer == [none |-> TRUE, v |-> <<>>]

\* WaterfallSettings.__init__
NewWaterfallSettings ==
    [ min_db |-> -80,
      max_db |-> 0,
      contrast |-> 10,
      brightness |-> 0,
      peak_hold |-> FALSE,
      peak_decay |-> PeakDecayPercent,
      peak_buffer |-> NoBuffer ]

Min(a, b) == IF a < b THEN a ELSE b

Max(a, b) == IF a > b THEN a ELSE b

\* set_range storing the minimum as given
set_range_as_given(w, min_db, max_db) ==
    [w EXCEPT !.min_db = min_db, !.max_db = max_db]

\* WaterfallSettings.set_range
set_range(w, min_db, max_db) ==
    [w EXCEPT !.min_db = Min(min_db, max_db - MinRange), !.max_db = max_db]

\* WaterfallSettings.set_contrast
set_contrast(w, contrast) ==
    [w EXCEPT !.contrast = Clip(contrast, ContrastMin, ContrastMax)]

\* WaterfallSettings.set_brightness
set_brightness(w, brightness) ==
    [w EXCEPT !.brightness = Clip(brightness, BrightnessMin, BrightnessMax)]

\* (fft_db + self.brightness) * self.contrast, in deci-dB
Adjusted(w, fft_db) ==
    [i \in 1 .. Len(fft_db) |-> (fft_db[i] + w.brightness) * w.contrast]

\* Decayed without decay
DecayedNot(w, peak) == peak

\* self.peak_buffer * self.peak_decay for one bin
Decayed(w, peak) == RoundDiv(peak * w.peak_decay, 100)

\* PeakAfter that takes the adjusted frame on every call
PeakAfterNoMemory(w, processed) ==
    IF ~w.peak_hold THEN w.peak_buffer ELSE [none |-> FALSE, v |-> processed]

\* the peak-hold buffer after apply_processing has seen the adjusted frame
PeakAfter(w, processed) ==
    IF ~w.peak_hold THEN w.peak_buffer
    ELSE IF w.peak_buffer.none \/ Len(w.peak_buffer.v) # Len(processed)
    THEN [none |-> FALSE, v |-> processed]
    ELSE [none |-> FALSE,
          v |-> [i \in 1 .. Len(processed) |->
                    Max(processed[i], Decayed(w, w.peak_buffer.v[i]))]]

\* the frame apply_processing clips and returns: the adjusted frame, or with peak
\* hold the peak buffer (which is the adjusted frame when just initialised)
Shown(w, processed) ==
    IF w.peak_hold THEN PeakAfter(w, processed).v ELSE processed

\* ClipFrame letting every value through
ClipFrameNone(w, frame) == frame

\* np.clip(processed, self.min_db, self.max_db)
ClipFrame(w, frame) ==
    [i \in 1 .. Len(frame) |-> Clip(frame[i], Deci(w.min_db), Deci(w.max_db))]

\* WaterfallSettings.apply_processing: the frame returned
apply_processing_out(w, fft_db) == ClipFrame(w, Shown(w, Adjusted(w, fft_db)))

\* WaterfallSettings.apply_processing: the settings after the call
apply_processing(w, fft_db) ==
    [w EXCEPT !.peak_buffer = PeakAfter(w, Adjusted(w, fft_db))]

----------------------------------------------------------------------------
(* MorseDecoder, as the specification's section 4.5 describes it (its code is *)
(* not among the repository's files).  Durations are in milliseconds, the     *)
(* envelope's mean amplitude in tenths; a code is a sequence of "." and "-",  *)
(* the decoded text a sequence of characters.                                 *)

\* words per minute
Wpm == 20

\* dotDuration = 1.2 / wpm seconds
DotDuration == 1200 \div Wpm

DashDuration == 3 * DotDuration

CharGap == 3 * DotDuration

WordGap == 7 * DotDuration

\* the detection threshold on the mean envelope amplitude (0.3), in tenths
MorseThresholdTenths == 3

\* the Morse table for the codes of up to three symbols; any other code, the
\* empty one included, is unknown
MorseTable(code) ==
    CASE code = <<".">> -> "E"
      [] code = <<"-">> -> "T"
      [] code = <<".", ".">> -> "I"
      [] code = <<".", "-">> -> "A"
      [] code = <<"-", ".">> -> "N"
      [] code = <<"-", "-">> -> "M"
      [] code = <<".", ".", ".">> -> "S"
      [] code = <<".", ".", "-">> -> "U"
      [] code = <<".", "-", ".">> -> "R"
      [] code = <<".", "-", "-">> -> "W"
      [] code = <<"-", ".", ".">> -> "D"
      [] code = <<"-", ".", "-">> -> "K"
      [] code = <<"-", "-", ".">> -> "G"
      [] code = <<"-", "-", "-">> -> "O"
      [] OTHER -> "?"

NewMorseDecoder ==
    [ code |-> <<>>, text |-> <<>>, last_state |-> 0, state_duration |-> 0 ]

\* a tone classification that takes every short tone for a dot
AfterToneKeepsNoise(code, duration) ==
    IF 10 * duration >= 7 * DashDuration THEN Append(code, "-")
    ELSE Append(code, ".")

\* the pending code after a tone of the given duration has ended
AfterTone(code, duration) ==
    IF 10 * duration >= 7 * DashDuration THEN Append(code, "-")
    ELSE IF 10 * duration >= 5 * DotDuration THEN Append(code, ".")
    ELSE code

\* a gap handling that takes a word gap for a character gap
AfterGapNoSpace(code, duration) ==
    IF 10 * duration >= 7 * CharGap THEN <<MorseTable(code)>>
    ELSE <<>>

\* the characters finalized when a gap of the given duration has ended
AfterGap(code, duration) ==
    IF 10 * duration >= 7 * WordGap THEN <<MorseTable(code), " ">>
    ELSE IF 10 * duration >= 7 * CharGap THEN <<MorseTable(code)>>
    ELSE <<>>

\* feed: the text increment returned for a block of the given mean amplitude
\* and duration
feed_increment(m, avg, duration) ==
    LET current == IF avg > MorseThresholdTenths THEN 1 ELSE 0
    IN  IF current # m.last_state /\ m.last_state = 0
        THEN AfterGap(m.code, m.state_duration)
        ELSE <<>>

\* feed: the decoder after the call
feed(m, avg, duration) ==
    LET current == IF avg > MorseThresholdTenths THEN 1 ELSE 0
        transition == current # m.last_state
        increment == feed_increment(m, avg, duration)
    IN  [ code |-> IF ~transition THEN m.code
                   ELSE IF m.last_state = 1 THEN AfterTone(m.code, m.state_duration)
                   ELSE IF increment = <<>> THEN m.code
                   ELSE <<>>,
          text |-> m.text \o increment,
          last_state |-> current,
          state_duration |-> (IF transition THEN 0 ELSE m.state_duration) + duration ]

----------------------------------------------------------------------------
(* The squelch gate driven call by call *)

\* thresholds asked of set_squelch, in dB: below, inside and above its range
ThresholdInputs == {-120, -97, -50, 5}

Blocks == [n : {1}, pwr : Powers] \cup {[n |-> 0, pwr |-> 0]}

NoEvent == [op |-> "init", blk |-> [n |-> 0, pwr |-> 0], was_open |-> FALSE,
            ret |-> FALSE, raised |-> FALSE]

\* hist.calls: detect_signal has been called on this instance; hist.steady: since
\* construction every detect_signal call ran with squelch enabled and the
\* threshold has not changed after the first call.
NewHist == [calls |-> FALSE, steady |-> TRUE]

NoScenario == [name |-> "none"]

\* no application around the core objects
NoApp == [name |-> "none"]

\* what the squelch interface leaves alone
squelchFrame == <<scen, wf, app, morse>>

Init ==
    /\ demod = NewDemodulator(1, "FM", 2400000, AudioRate)
    /\ ev = NoEvent
    /\ hist = NewHist
    /\ scen = NoScenario
    /\ wf = NewWaterfallSettings
    /\ morse = NewMorseDecoder
    /\ app = NoApp

DetectSignal ==
    \E blk \in Blocks :
        /\ demod' = detect_signal(demod, blk)
        /\ ev' = [op |-> "detect_signal", blk |-> blk,
                  was_open |-> demod.last_signal_detected,
                  ret |-> demod'.last_signal_detected, raised |-> FALSE]
        /\ hist' = [calls |-> TRUE, steady |-> hist.steady /\ demod.squelch_enabled]
        /\ UNCHANGED squelchFrame

SetSquelch ==
    \E t \in ThresholdInputs :
        /\ demod' = set_squelch(demod, t)
        /\ ev' = [NoEvent EXCEPT !.op = "set_squelch"]
        /\ hist' = [hist EXCEPT !.steady =
                      hist.steady /\ (~hist.calls \/
                          demod'.squelch_threshold = demod.squelch_threshold)]
        /\ UNCHANGED squelchFrame

EnableSquelch ==
    \E b \in BOOLEAN :
        /\ demod' = enable_squelch(demod, b)
        /\ ev' = [NoEvent EXCEPT !.op = "enable_squelch"]
        /\ UNCHANGED <<hist, squelchFrame>>

NextSquelch == DetectSignal \/ SetSquelch \/ EnableSquelch

SpecSquelch == Init /\ [][NextSquelch]_vars

----------------------------------------------------------------------------
(* Claims about the squelch gate (SpecSquelch) *)

IsDetect == ev.op = "detect_signal"

\* C1, as stated: with squelch enabled, a previously open gate closes only when
\* smoothed < threshold - hysteresis, and a previously closed gate opens only
\* when smoothed > threshold (stated for the calls that leave the smoothed power
\* a number).
C1_AsStated ==
    (IsDetect /\ demod.squelch_enabled /\ ~demod.smoothed_power.nan) =>
        /\ (ev.was_open /\ ~demod.last_signal_detected) =>
               FLt(demod.smoothed_power, Deci(demod.squelch_threshold - SquelchHysteresis))
        /\ (~ev.was_open /\ demod.last_signal_detected) =>
               FGt(demod.smoothed_power, Deci(demod.squelch_threshold))

\* C1, amended: with squelch enabled, after every detect_signal call the gate is
\* open exactly when the freshly smoothed power is > threshold - hysteresis (gate
\* previously open) or > threshold (gate previously closed); at smoothed =
\* threshold - hysteresis a previously open gate closes.
C1_Hysteresis ==
    (IsDetect /\ demod.squelch_enabled) =>
        /\ ev.ret = demod.last_signal_detected
        /\ demod.last_signal_detected =
             FGt(demod.smoothed_power,
                 Deci(IF ev.was_open
                      THEN demod.squelch_threshold - SquelchHysteresis
                      ELSE demod.squelch_threshold))

\* C1 witness: a previously open gate closed by a call that left the smoothed
\* power exactly at threshold - hysteresis.
C1_Witness ==
    /\ IsDetect /\ demod.squelch_enabled /\ ev.blk.n > 0
    /\ ev.was_open /\ ~demod.last_signal_detected
    /\ ~demod.smoothed_power.nan
    /\ demod.smoothed_power.v = Deci(demod.squelch_threshold - SquelchHysteresis)

\* C2: with squelch enabled and the threshold fixed, a call whose block power is
\* exactly the threshold never changes the gate; the gate opens only on a call
\* whose block power is above the threshold, and closes only on a call whose
\* block power is below threshold - hysteresis.
C2_NoChatter ==
    (IsDetect /\ hist.steady /\ ev.blk.n > 0) =>
        /\ (ev.blk.pwr = demod.squelch_threshold) =>
               demod.last_signal_detected = ev.was_open
        /\ (~ev.was_open /\ demod.last_signal_detected) =>
               ev.blk.pwr > demod.squelch_threshold
        /\ (ev.was_open /\ ~demod.last_signal_detected) =>
               ev.blk.pwr < demod.squelch_threshold - SquelchHysteresis

\* C2 witness: an open gate, fed a block whose power is exactly the threshold while
\* the smoothed power is below the threshold, stays open.
C2_Witness ==
    /\ IsDetect /\ hist.steady /\ ev.blk.n > 0
    /\ ev.blk.pwr = demod.squelch_threshold
    /\ ev.was_open /\ demod.last_signal_detected
    /\ FLt(demod.smoothed_power, Deci(demod.squelch_threshold))

\* C3: with squelch disabled, detect_signal returns open on every call, whatever
\* the block and the state before.
C3_DisabledAlwaysOpen ==
    (IsDetect /\ ~demod.squelch_enabled) =>
        (ev.ret /\ demod.last_signal_detected)

\* C3 witness: squelch disabled, a closed gate and a silent block: the call
\* returns open although the smoothed power is below the threshold.
C3_Witness ==
    /\ IsDetect /\ ~demod.squelch_enabled
    /\ ~ev.was_open /\ ev.ret
    /\ ev.blk.n > 0 /\ ev.blk.pwr = -100
    /\ FLt(demod.smoothed_power, Deci(demod.squelch_threshold))

----------------------------------------------------------------------------
(* The end-to-end scenario: a tone fed to a new FM demodulator, block by block *)

\* the largest block power of the tone, in dB
MaxTonePower == 10

\* the most blocks the tone is split into
MaxToneBlocks == 12

\* block powers above the default threshold
TonePowers == (DefaultSquelchThreshold + 1) .. MaxTonePower

InitTone ==
    /\ demod = NewDemodulator(1, "FM", 2400000, AudioRate)
    /\ ev = NoEvent
    /\ hist = NewHist
    /\ scen \in [name : {"tone"}, pwr : TonePowers, blocks : {0}]
    /\ wf = NewWaterfallSettings
    /\ morse = NewMorseDecoder
    /\ app = NoApp

\* update_display / update_loop: detect_signal on the next block of the tone
FeedToneBlock ==
    /\ scen.name = "tone"
    /\ scen.blocks < MaxToneBlocks
    /\ LET blk == [n |-> 1, pwr |-> scen.pwr]
       IN  /\ demod' = detect_signal(demod, blk)
           /\ ev' = [op |-> "detect_signal", blk |-> blk,
                     was_open |-> demod.last_signal_detected,
                     ret |-> demod'.last_signal_detected, raised |-> FALSE]
    /\ hist' = [calls |-> TRUE, steady |-> hist.steady /\ demod.squelch_enabled]
    /\ scen' = [scen EXCEPT !.blocks = @ + 1]
    /\ UNCHANGED <<wf, app, morse>>

NextTone == FeedToneBlock

SpecTone == InitTone /\ [][NextTone]_vars

\* C4, as stated: the call on the last block of the tone returns true, whether
\* the tone is one block or several: every call of the scenario returns open.
C4_AsStated == (scen.name = "tone" /\ scen.blocks >= 1) => ev.ret

\* C4, amended: the call on a single block (the first call on the new
\* demodulator) reports the gate closed for every block power above the
\* threshold; fed as consecutive blocks of power >= 0 dB, the call on the 7th and
\* on every later block returns true.
C4_ToneOpensAfterBlocks ==
    (scen.name = "tone" /\ scen.blocks >= 1) =>
        /\ ev.ret = demod.last_signal_detected
        /\ scen.blocks = 1 => ~ev.ret
        /\ (scen.pwr >= 0 /\ scen.blocks >= 7) => ev.ret

\* C4 witness: the 7th block of a 0 dB tone opens the gate, which was closed
\* up to the 6th.
C4_Witness ==
    /\ scen.name = "tone" /\ scen.pwr = 0 /\ scen.blocks = 7
    /\ ~ev.was_open /\ ev.ret

----------------------------------------------------------------------------
(* The waterfall settings driven call by call *)

\* input frames (whole dB per bin), of one and of two bins
Frames == {<<-80>>, <<20>>, <<-80, -80>>}

\* values asked of set_contrast (tenths) and set_brightness (dB): inside and
\* outside their ranges
ContrastInputs == {10, 40}

BrightnessInputs == {0, 60}

\* values asked of set_range, in dB: a range that is wide enough and one that
\* is not
MinDbInputs == {-80, 0}

MaxDbInputs == {-10, 0}

\* the longest run of one constant frame that is counted
MaxRun == 3

\* what the waterfall interface leaves alone
waterfallFrame == <<demod, hist, scen, app, morse>>

\* ev.run counts the calls since the peak buffer was initialised from a frame,
\* while every call since has been given that same frame under unchanged
\* settings (0: no such run)
RunAfter(frame) ==
    IF ~wf.peak_hold THEN 0
    ELSE IF wf.peak_buffer.none \/ Len(wf.peak_buffer.v) # Len(frame) THEN 1
    ELSE IF ev.op = "apply_processing" /\ ev.run >= 1 /\ ev.frame = frame
    THEN Min(ev.run + 1, MaxRun)
    ELSE 0

ApplyProcessing ==
    \E frame \in Frames :
        /\ wf' = apply_processing(wf, frame)
        /\ ev' = [op |-> "apply_processing", frame |-> frame,
                  out |-> apply_processing_out(wf, frame),
                  prev_peak |-> wf.peak_buffer, run |-> RunAfter(frame)]
        /\ UNCHANGED waterfallFrame

SetRange ==
    \E mn \in MinDbInputs, mx \in MaxDbInputs :
        /\ wf' = set_range(wf, mn, mx)
        /\ ev' = [op |-> "set_range", min_db |-> mn, max_db |-> mx]
        /\ UNCHANGED waterfallFrame

SetContrast ==
    \E c \in ContrastInputs :
        /\ wf' = set_contrast(wf, c)
        /\ ev' = [op |-> "set_contrast"]
        /\ UNCHANGED waterfallFrame

SetBrightness ==
    \E b \in BrightnessInputs :
        /\ wf' = set_brightness(wf, b)
        /\ ev' = [op |-> "set_brightness"]
        /\ UNCHANGED waterfallFrame

\* on_peak_hold_changed / handle_set_peak_hold
set_peak_hold(w, enabled) ==
    IF enabled THEN [w EXCEPT !.peak_hold = TRUE]
    ELSE [w EXCEPT !.peak_hold = FALSE, !.peak_buffer = NoBuffer]

SetPeakHold ==
    \E b \in BOOLEAN :
        /\ wf' = set_peak_hold(wf, b)
        /\ ev' = [op |-> "set_peak_hold"]
        /\ UNCHANGED waterfallFrame

NextWaterfall ==
    ApplyProcessing \/ SetRange \/ SetContrast \/ SetBrightness \/ SetPeakHold

SpecWaterfall == Init /\ [][NextWaterfall]_vars

\* C12: every value of every frame apply_processing returns lies in
\* [min_db, max_db], whatever the frame, contrast and brightness, with peak
\* hold on or off.
C12_FrameInRange ==
    ev.op = "apply_processing" =>
        \A i \in 1 .. Len(ev.out) :
            ev.out[i] >= Deci(wf.min_db) /\ ev.out[i] <= Deci(wf.max_db)

\* with peak hold on, a frame above the range was returned clipped to max_db
C12_Witness ==
    /\ ev.op = "apply_processing"
    /\ wf.peak_hold
    /\ ev.frame = <<20>>
    /\ wf.peak_buffer.v[1] > Deci(wf.max_db)
    /\ ev.out = <<Deci(wf.max_db)>>

\* C13: after any sequence of set_range calls min_db <= max_db - 5 holds; a
\* requested minimum that would leave less than 5 dB of range is lowered to
\* max_db - 5, and max_db is stored as given.
C13_RangeFloor ==
    /\ wf.min_db <= wf.max_db - MinRange
    /\ ev.op = "set_range" =>
          /\ wf.max_db = ev.max_db
          /\ wf.min_db = IF ev.min_db > ev.max_db - MinRange
                         THEN ev.max_db - MinRange
                         ELSE ev.min_db

\* a minimum equal to the maximum was asked for and was lowered
C13_Witness ==
    /\ ev.op = "set_range"
    /\ ev.min_db = 0
    /\ ev.max_db = 0
    /\ wf.min_db = -5

\* C28: with peak hold on, a missing peak buffer or one of another length is
\* set to displayed = (frame + brightness) * contrast and the output is
\* clip(displayed); otherwise the buffer becomes max(displayed, peak *
\* peak_decay) bin by bin and the output is clip(peak); with peak hold off the
\* buffer is left as it was and the output is clip(displayed).
C28_PeakHoldRule ==
    ev.op = "apply_processing" =>
        LET displayed == [i \in 1 .. Len(ev.frame) |->
                             (ev.frame[i] + wf.brightness) * wf.contrast]
            prev == ev.prev_peak
        IN  IF ~wf.peak_hold
            THEN wf.peak_buffer = prev /\ ev.out = ClipFrame(wf, displayed)
            ELSE IF prev.none \/ Len(prev.v) # Len(ev.frame)
            THEN /\ wf.peak_buffer = [none |-> FALSE, v |-> displayed]
                 /\ ev.out = ClipFrame(wf, displayed)
            ELSE /\ ~wf.peak_buffer.none
                 /\ Len(wf.peak_buffer.v) = Len(ev.frame)
                 /\ \A i \in 1 .. Len(ev.frame) :
                        wf.peak_buffer.v[i] =
                            Max(displayed[i], RoundDiv(prev.v[i] * wf.peak_decay, 100))
                 /\ ev.out = ClipFrame(wf, wf.peak_buffer.v)

\* a -80 dB frame met a peak of 20 dB: the peak decayed to 19 dB and was shown,
\* clipped to the range's upper end
C28_Witness ==
    /\ ev.op = "apply_processing"
    /\ wf.peak_hold
    /\ wf.contrast = 10
    /\ wf.brightness = 0
    /\ wf.max_db = 0
    /\ ev.frame = <<-80>>
    /\ ev.prev_peak = [none |-> FALSE, v |-> <<200>>]
    /\ wf.peak_buffer.v = <<190>>
    /\ ev.out = <<0>>

\* C7, as stated: with peak hold enabled, while one constant frame is fed
\* repeatedly (from the call that initialised the peak buffer on), each bin of
\* the peak buffer moves monotonically upward and never exceeds the
\* brightness/contrast-adjusted input value.
C7_AsStated ==
    (ev.op = "apply_processing" /\ ev.run >= 2) =>
        \A i \in 1 .. Len(ev.frame) :
            /\ wf.peak_buffer.v[i] <= Adjusted(wf, ev.frame)[i]
            /\ ev.prev_peak.v[i] <= wf.peak_buffer.v[i]

----------------------------------------------------------------------------
(* FMDemodulator.demodulate up to the unwrapped phase differences.  A phase   *)
(* is held in units of pi/4: np.angle gives -3 .. 4 (-pi excluded, pi         *)
(* included); 2*pi is 8 units.  An IQ block is the sequence of its samples'   *)
(* phases, every sample of amplitude 1.                                       *)

\* pi and 2*pi in phase units
Pi == 4

TwoPi == 8

\* np.angle of the sample with true phase x
Angle(x) == ((x + Pi - 1) % TwoPi) - (Pi - 1)

\* np.diff(phase, prepend=last_phase)
PhaseDiff(last_phase, phase) ==
    [i \in 1 .. Len(phase) |->
        phase[i] - (IF i = 1 THEN last_phase ELSE phase[i - 1])]

\* np.unwrap's correction for one step dd between neighbours
PhCorrect(dd) ==
    LET m == ((dd + Pi) % TwoPi) - Pi
        ddmod == IF m = -Pi /\ dd > 0 THEN Pi ELSE m
    IN  IF dd < Pi /\ dd > -Pi THEN 0 ELSE ddmod - dd

\* np.unwrap(p): the first element is kept, each later one gets the corrections
\* accumulated since the start of p
Unwrap(p) ==
    LET cum[i \in 1 .. Len(p)] ==
            IF i = 1 THEN 0 ELSE cum[i - 1] + PhCorrect(p[i] - p[i - 1])
    IN  [i \in 1 .. Len(p) |-> p[i] + cum[i]]

\* scipy's decimate filters forward and backward with a padding of 27 samples
\* and raises ValueError unless the input is longer
DecimatePadLen == 27

\* the exception FMDemodulator.demodulate raises on a block, "" for none:
\* phase[-1] of an empty block, decimate of a short one
DemodulateError(phase) ==
    IF Len(phase) = 0 THEN "IndexError"
    ELSE IF Len(phase) <= DecimatePadLen THEN "ValueError"
    ELSE ""

\* demodulate: the demodulator after the call.  FM assigns last_phase before
\* decimate runs, and not at all for an empty block; AM and SSB keep nothing.
demodulate(d, phase) ==
    IF d.kind = "FM" /\ Len(phase) > 0
    THEN [d EXCEPT !.last_phase = phase[Len(phase)]]
    ELSE d

\* FMDemodulator.demodulate: the unwrapped phase differences the audio is
\* scaled, decimated and de-emphasised from
demodulate_phase_diff(d, phase) == Unwrap(PhaseDiff(d.last_phase, phase))

----------------------------------------------------------------------------
(* One FM demodulator given a signal block by block.  The signal is a tone:   *)
(* sample i has phase phi0 + k*i.  scen.pos samples have been demodulated, in *)
(* scen.calls calls; scen.out is the concatenation of the unwrapped phase     *)
(* differences of the calls; scen.ok: no call raised.                         *)

\* the signal is as long as two blocks that decimate accepts
SignalLen == 2 * (DecimatePadLen + 1)

StartPhases == {0, 2}

PhaseSteps == {0, 1, 3}

\* the most demodulate calls on one signal
MaxCalls == 3

Signal(sc) == [i \in 1 .. SignalLen |-> Angle(sc.phi0 + sc.k * i)]

\* the lengths of the next block: empty, too short for decimate, just long
\* enough, and all that is left
BlockLens(left) == {n \in {0, DecimatePadLen, DecimatePadLen + 1, left} : n <= left}

InitFM ==
    /\ demod = NewDemodulator(1, "FM", 2400000, AudioRate)
    /\ ev = NoEvent
    /\ hist = NewHist
    /\ scen \in [name : {"fm"}, phi0 : StartPhases, k : PhaseSteps, pos : {0},
                 calls : {0}, ok : {TRUE}, out : {<<>>}]
    /\ wf = NewWaterfallSettings
    /\ morse = NewMorseDecoder
    /\ app = NoApp

DemodulateBlock ==
    \E n \in BlockLens(SignalLen - scen.pos) :
        LET phase == SubSeq(Signal(scen), scen.pos + 1, scen.pos + n)
            error == DemodulateError(phase)
        IN  /\ scen.calls < MaxCalls
            /\ demod' = demodulate(demod, phase)
            /\ scen' = [scen EXCEPT
                          !.pos = @ + n,
                          !.calls = @ + 1,
                          !.ok = @ /\ error = "",
                          !.out = IF error = "" THEN @ \o demodulate_phase_diff(demod, phase)
                                  ELSE @]
            /\ ev' = [op |-> "demodulate", n |-> n, error |-> error]
            /\ UNCHANGED <<hist, wf, app, morse>>

\* detect_signal on the next block of the signal (power 0 dB unless empty)
DetectSignalBlock ==
    \E n \in BlockLens(SignalLen - scen.pos) :
        LET blk == [n |-> n, pwr |-> 0]
        IN  /\ demod' = detect_signal(demod, blk)
            /\ ev' = [op |-> "detect_signal", blk |-> blk,
                      was_open |-> demod.last_signal_detected,
                      ret |-> demod'.last_signal_detected, raised |-> FALSE]
            /\ hist' = [calls |-> TRUE, steady |-> hist.steady /\ demod.squelch_enabled]
            /\ UNCHANGED squelchFrame

NextFM == DemodulateBlock \/ DetectSignalBlock

SpecFM == InitFM /\ [][NextFM]_vars

\* C6, as stated: detect_signal and demodulate given an empty IQ block do not
\* raise and leave the demodulator's state (smoothed power, last gate state, FM
\* last phase) as it was before the call.
C6_AsStated ==
    [][ /\ (ev'.op = "detect_signal" /\ ev'.blk.n = 0) => demod' = demod
        /\ (ev'.op = "demodulate" /\ ev'.n = 0) => (ev'.error = "" /\ demod' = demod)
      ]_vars

\* C8, as stated: a signal demodulated in two or more consecutive blocks, none
\* of them refused, gives the same unwrapped phase-difference sequence as the
\* whole signal demodulated in one call by a new demodulator.
C8_AsStated ==
    (scen.name = "fm" /\ scen.pos = SignalLen /\ scen.ok /\ scen.calls >= 2) =>
        scen.out = demodulate_phase_diff(NewDemodulator(1, "FM", 2400000, AudioRate),
                                         Signal(scen))

----------------------------------------------------------------------------
(* The desktop application (WaveRiderSDR): Qt delivers one signal at a time,  *)
(* so every handler runs to its end.  The demodulator is self.demodulator;    *)
(* its id tells the instances apart.                                          *)

\* the most demodulator instances constructed in one run
MaxInstances == 2

\* the squelch slider's positions that are tried (its range is -100 .. 0)
SliderValues == {-50, 0}

\* power of the blocks the device or the signal generator delivers, in dB
AppPowers == {0}

\* phase of the last sample of such a block
AppLastPhases == {3}

\* a block of fft_size samples (512 and more), by its length class: longer than
\* decimate's padding
AppBlock(last) == [i \in 1 .. DecimatePadLen + 1 |-> last]

\* WaveRiderSDR.__init__
NewDesktop ==
    [ name |-> "desktop",
      sample_rate |-> 2400000,
      modulation_mode |-> "FM",
      audio_enabled |-> FALSE,
      is_playing |-> FALSE,
      is_running |-> FALSE,
      squelch_slider |-> DefaultSquelchThreshold ]

InitDesktop ==
    /\ app = NewDesktop
    /\ demod = NewDemodulator(1, "FM", app.sample_rate, AudioRate)
    /\ ev = NoEvent
    /\ hist = NewHist
    /\ scen = NoScenario
    /\ wf = NewWaterfallSettings
    /\ morse = NewMorseDecoder

\* timer tick.  read_ok: the device delivered a block (the signal generator
\* always does); without one the handler returns at once.  With audio off only
\* the display changes.
UpdateDisplay ==
    \E read_ok \in BOOLEAN, pwr \in AppPowers, last \in AppLastPhases, frame \in Frames :
        LET blk == [n |-> DecimatePadLen + 1, pwr |-> pwr]
            audio == read_ok /\ app.audio_enabled /\ app.is_playing
            detected == detect_signal(demod, blk)
            open == detected.last_signal_detected
        IN  /\ app.is_running
            /\ wf' = IF read_ok THEN apply_processing(wf, frame) ELSE wf
            /\ demod' = IF ~audio THEN demod
                        ELSE IF open THEN demodulate(detected, AppBlock(last))
                        ELSE detected
            /\ ev' = [op |-> "update_display",
                      displayed |-> read_ok,
                      detect_id |-> IF audio THEN demod.id ELSE 0,
                      ret |-> audio /\ open,
                      demod_id |-> IF audio /\ open THEN demod.id ELSE 0,
                      played |-> audio /\ open]
            /\ UNCHANGED <<hist, scen, app, morse>>

OnSampleRateChanged ==
    \E rate \in SampleRates :
        /\ app' = [app EXCEPT !.sample_rate = rate]
        /\ ev' = [op |-> "on_sample_rate_changed"]
        /\ UNCHANGED <<demod, hist, scen, wf, morse>>

\* the check box: start_ok is whether the audio stream could be opened.  A
\* failed start unchecks the box, which runs the handler's other branch.
OnAudioEnableChanged ==
    \E checked \in BOOLEAN, start_ok \in BOOLEAN :
        /\ app' = [app EXCEPT !.audio_enabled = checked /\ start_ok,
                              !.is_playing = checked /\ start_ok]
        /\ ev' = [op |-> "on_audio_enable_changed"]
        /\ UNCHANGED <<demod, hist, scen, wf, morse>>

\* on_modulation_changed that re-labels the demodulator in use
on_modulation_changed_relabel(d, a, value) ==
    [d EXCEPT !.id = d.id + 1, !.kind = value]

\* on_modulation_changed: the demodulator in use after the handler, a new one of
\* the mode chosen with the slider's threshold
on_modulation_changed(d, a, value) ==
    set_squelch(NewDemodulator(d.id + 1, value, a.sample_rate, AudioRate),
                a.squelch_slider)

\* ev.old is the demodulator in use before the handler ran
OnModulationChanged ==
    \E value \in Kinds :
        /\ demod.id < MaxInstances
        /\ app' = [app EXCEPT !.modulation_mode = value]
        /\ demod' = on_modulation_changed(demod, app, value)
        /\ ev' = [op |-> "on_modulation_changed", old |-> demod]
        /\ UNCHANGED <<hist, scen, wf, morse>>

OnSquelchChanged ==
    \E value \in SliderValues :
        /\ app' = [app EXCEPT !.squelch_slider = value]
        /\ demod' = set_squelch(demod, value)
        /\ ev' = [op |-> "on_squelch_changed"]
        /\ UNCHANGED <<hist, scen, wf, morse>>

\* the Start/Stop button; stopping also stops and disables audio
ToggleAcquisition ==
    /\ app' = IF app.is_running
              THEN [app EXCEPT !.is_running = FALSE,
                               !.audio_enabled = FALSE,
                               !.is_playing = IF app.audio_enabled THEN FALSE ELSE @]
              ELSE [app EXCEPT !.is_running = TRUE]
    /\ ev' = [op |-> "toggle_acquisition"]
    /\ UNCHANGED <<demod, hist, scen, wf, morse>>

NextDesktop ==
    \/ UpdateDisplay
    \/ OnSampleRateChanged
    \/ OnAudioEnableChanged
    \/ OnModulationChanged
    \/ OnSquelchChanged
    \/ ToggleAcquisition

SpecDesktop == InitDesktop /\ [][NextDesktop]_vars

\* C5, as stated: no demodulator instance exists whose sampleRate / audioRate
\* is not an integer >= 1 (its construction fails instead): every instance's
\* decimation factor is exactly that ratio.
C5_AsStated ==
    /\ demod.decimation >= 1
    /\ demod.decimation * demod.audio_rate = demod.sample_rate

C26_AsStated ==
    /\ demod.sample_rate = app.sample_rate
    /\ demod.decimation = app.sample_rate \div demod.audio_rate

\* C23, as stated: in every cycle in which a display frame is produced from a
\* block, detect_signal is evaluated on that block too.
C23_AsStated ==
    (ev.op = "update_display" /\ ev.displayed) => ev.detect_id # 0

----------------------------------------------------------------------------
(* The web application (WaveRiderWebApp): 'start' runs update_loop in a       *)
(* thread of its own, and the socket handlers run while it does.  A thread    *)
(* of update_loop is at one of                                                *)
(*   "while"       about to test self.running                                 *)
(*   "frame"       about to take a block, display it and test audio_enabled   *)
(*   "detect"      about to call self.demodulator.detect_signal(samples)      *)
(*   "demodulate"  about to call self.demodulator.demodulate(samples)         *)
(* and holds its block (samples) and gate_id, the id of the instance whose    *)
(* detect_signal opened the gate in this cycle, until the cycle ends.         *)

\* the most update_loop threads alive at once
MaxThreads == 1

NoSamples == [pwr |-> 0, last |-> 0]

\* the event left by every step but update_loop's demodulate call
WebEvent == [op |-> "web"]

NewThread == [pc |-> "while", samples |-> NoSamples, gate_id |-> 0]

\* WaveRiderWebApp.__init__
NewWeb ==
    [ name |-> "web",
      sample_rate |-> 2400000,
      modulation_mode |-> "FM",
      audio_enabled |-> FALSE,
      running |-> FALSE,
      threads |-> <<>> ]

InitWeb ==
    /\ app = NewWeb
    /\ demod = NewDemodulator(1, "FM", app.sample_rate, AudioRate)
    /\ ev = NoEvent
    /\ hist = NewHist
    /\ scen = NoScenario
    /\ wf = NewWaterfallSettings
    /\ morse = NewMorseDecoder

\* s without its i-th element
Remove(s, i) == SubSeq(s, 1, i - 1) \o SubSeq(s, i + 1, Len(s))

HandleStart ==
    /\ ~app.running => Len(app.threads) < MaxThreads
    /\ app' = IF app.running THEN app
              ELSE [app EXCEPT !.running = TRUE, !.threads = Append(@, NewThread)]
    /\ ev' = WebEvent
    /\ UNCHANGED <<demod, hist, scen, wf, morse>>

HandleStop ==
    /\ app' = [app EXCEPT !.running = FALSE]
    /\ ev' = WebEvent
    /\ UNCHANGED <<demod, hist, scen, wf, morse>>

\* the mode names a client asks for: the four modes and one the handler has no
\* demodulator for
WebModes == Kinds \cup {"CW"}

\* set_modulation: the name is stored, and one of the four modes brings a new
\* demodulator
HandleSetModulation ==
    \E mode \in WebModes :
        /\ mode \in Kinds => demod.id < MaxInstances
        /\ app' = [app EXCEPT !.modulation_mode = mode]
        /\ demod' = IF mode \in Kinds
                    THEN NewDemodulator(demod.id + 1, mode, app.sample_rate, AudioRate)
                    ELSE demod
        /\ ev' = WebEvent
        /\ UNCHANGED <<hist, scen, wf, morse>>

\* the modes the band plan recommends; "" stands for a band the plan does not
\* have
BandModes == {"AM", "FM", "LSB", "USB", "WFM", ""}

\* set_band: a band with one of the four modes, or WFM (taken as FM), brings a
\* new demodulator; the centre frequency is not part of the model
HandleSetBand ==
    \E recommended_mode \in BandModes :
        LET mode == IF recommended_mode = "WFM" THEN "FM" ELSE recommended_mode
        IN  /\ mode \in Kinds => demod.id < MaxInstances
            /\ app' = IF mode \in Kinds THEN [app EXCEPT !.modulation_mode = mode]
                      ELSE app
            /\ demod' = IF mode \in Kinds
                        THEN NewDemodulator(demod.id + 1, mode, app.sample_rate, AudioRate)
                        ELSE demod
            /\ ev' = WebEvent
            /\ UNCHANGED <<hist, scen, wf, morse>>

HandleSetAudioEnable ==
    \E enabled \in BOOLEAN :
        /\ app' = [app EXCEPT !.audio_enabled = enabled]
        /\ ev' = WebEvent
        /\ UNCHANGED <<demod, hist, scen, wf, morse>>

\* the thresholds asked of set_squelch by a client, in dB: any number
WebThresholds == {-120, -50, 5}

HandleSetSquelch ==
    \E threshold \in WebThresholds :
        /\ demod' = set_squelch(demod, threshold)
        /\ ev' = [op |-> "handle_set_squelch", threshold |-> threshold]
        /\ UNCHANGED <<app, hist, scen, wf, morse>>

\* while self.running: the thread ends when it is false
LoopWhile(i) ==
    /\ app.threads[i].pc = "while"
    /\ app' = IF app.running
              THEN [app EXCEPT !.threads[i].pc = "frame"]
              ELSE [app EXCEPT !.threads = Remove(@, i)]
    /\ ev' = WebEvent
    /\ UNCHANGED <<demod, hist, scen, wf, morse>>

\* samples, compute_fft_db, apply_processing, the waterfall image, and the test
\* of audio_enabled (with audio off: sleep, then the while test again)
LoopFrame(i) ==
    \E pwr \in AppPowers, last \in AppLastPhases, frame \in Frames :
        /\ app.threads[i].pc = "frame"
        /\ wf' = apply_processing(wf, frame)
        /\ app' = [app EXCEPT !.threads[i] =
                      IF app.audio_enabled
                      THEN [pc |-> "detect", samples |-> [pwr |-> pwr, last |-> last],
                            gate_id |-> 0]
                      ELSE NewThread]
        /\ ev' = WebEvent
        /\ UNCHANGED <<demod, hist, scen, morse>>

\* if self.demodulator.detect_signal(samples): (closed: sleep, then the while
\* test again)
LoopDetect(i) ==
    LET t == app.threads[i]
        blk == [n |-> DecimatePadLen + 1, pwr |-> t.samples.pwr]
    IN  /\ t.pc = "detect"
        /\ demod' = detect_signal(demod, blk)
        /\ app' = IF demod'.last_signal_detected
                  THEN [app EXCEPT !.threads[i].pc = "demodulate",
                                   !.threads[i].gate_id = demod.id]
                  ELSE [app EXCEPT !.threads[i] = NewThread]
        /\ ev' = WebEvent
        /\ UNCHANGED <<hist, scen, wf, morse>>

\* audio_samples = self.demodulator.demodulate(samples), sent to the client;
\* sleep, then the while test again
LoopDemodulate(i) ==
    LET t == app.threads[i]
    IN  /\ t.pc = "demodulate"
        /\ demod' = demodulate(demod, AppBlock(t.samples.last))
        /\ app' = [app EXCEPT !.threads[i] = NewThread]
        /\ ev' = [op |-> "loop_demodulate", gate_id |-> t.gate_id,
                  demod_id |-> demod.id]
        /\ UNCHANGED <<hist, scen, wf, morse>>

UpdateLoop ==
    \E i \in 1 .. Len(app.threads) :
        LoopWhile(i) \/ LoopFrame(i) \/ LoopDetect(i) \/ LoopDemodulate(i)

NextWeb ==
    \/ HandleStart
    \/ HandleStop
    \/ HandleSetModulation
    \/ HandleSetBand
    \/ HandleSetAudioEnable
    \/ HandleSetSquelch
    \/ UpdateLoop

SpecWeb == InitWeb /\ [][NextWeb]_vars

\* C14: the squelch threshold of the active demodulator is always within
\* [-100, 0] dB: set_squelch stores its argument clamped to that range, and
\* no other operation (mode change, band selection) moves it outside.
C14_ThresholdInRange ==
    /\ demod.squelch_threshold >= SquelchMin
    /\ demod.squelch_threshold <= SquelchMax
    /\ ev.op = "handle_set_squelch" =>
          demod.squelch_threshold =
              IF ev.threshold < SquelchMin THEN SquelchMin
              ELSE IF ev.threshold > SquelchMax THEN SquelchMax
              ELSE ev.threshold

\* a threshold below the range was asked for on a demodulator that a mode
\* change or band selection had brought
C14_Witness ==
    /\ ev.op = "handle_set_squelch"
    /\ ev.threshold = -120
    /\ demod.id > 1
    /\ demod.squelch_threshold = SquelchMin

\* C25, as stated: the squelch threshold survives demodulator re-creation: a
\* mode change or band selection that brings a new demodulator leaves the
\* threshold in use as it was, the most recently set one.
C25_AsStated ==
    [][demod'.id # demod.id => demod'.squelch_threshold = demod.squelch_threshold]_vars

\* C27, as stated: modulation_mode names the kind of the demodulator in use,
\* after any set_modulation and set_band events, requests for a mode outside
\* the four included.
C27_AsStated == app.modulation_mode = demod.kind

\* C10, as stated (web pipeline): whenever update_loop invokes demodulate, it
\* is on the demodulator instance whose detect_signal returned open for that
\* block in that cycle.
C10_AsStated ==
    ev.op = "loop_demodulate" => ev.demod_id = ev.gate_id

----------------------------------------------------------------------------
(* The Morse decoder fed the envelope of "SOS" and then silence, in blocks    *)
(* of a whole fraction of the dot duration.  scen.pos blocks have been fed.   *)

\* the envelope unit by unit (a unit is one dot duration): S, O, S with gaps of
\* one unit inside a character and three units between characters
Sos ==
    <<1, 0, 1, 0, 1, 0, 0, 0,
      1, 1, 1, 0, 1, 1, 1, 0, 1, 1, 1, 0, 0, 0,
      1, 0, 1, 0, 1>>

\* units of silence after the last tone
SilenceUnits == 10

\* amplitudes of the tone, in tenths
ToneAmplitudes == {5, 10}

\* blocks per unit
BlocksPerUnit == {1, 2, 3}

\* the unit the block after pos blocks lies in, and whether the tone is on
UnitOf(sc) == sc.pos \div sc.per_unit + 1

ToneOn(sc) == UnitOf(sc) <= Len(Sos) /\ Sos[UnitOf(sc)] = 1

InitMorse ==
    /\ demod = NewDemodulator(1, "FM", 2400000, AudioRate)
    /\ ev = NoEvent
    /\ hist = NewHist
    /\ scen \in [name : {"morse"}, per_unit : BlocksPerUnit, amp : ToneAmplitudes,
                 pos : {0}]
    /\ wf = NewWaterfallSettings
    /\ morse = NewMorseDecoder
    /\ app = NoApp

FeedMorseBlock ==
    LET avg == IF ToneOn(scen) THEN scen.amp ELSE 0
        duration == DotDuration \div scen.per_unit
    IN  /\ scen.name = "morse"
        /\ UnitOf(scen) <= Len(Sos) + SilenceUnits
        /\ morse' = feed(morse, avg, duration)
        /\ scen' = [scen EXCEPT !.pos = @ + 1]
        /\ ev' = [op |-> "feed", increment |-> feed_increment(morse, avg, duration)]
        /\ UNCHANGED <<demod, hist, wf, app>>

NextMorse == FeedMorseBlock

SpecMorse == InitMorse /\ [][NextMorse]_vars

\* the text without its trailing spaces
RECURSIVE StripTrailing(_)
StripTrailing(text) ==
    IF text # <<>> /\ text[Len(text)] = " "
    THEN StripTrailing(SubSeq(text, 1, Len(text) - 1))
    ELSE text

\* C9, as stated: once the envelope of "SOS" and the silence after it have
\* been fed, the decoded text is "SOS" up to trailing separators.
C9_AsStated ==
    (scen.name = "morse" /\ UnitOf(scen) > Len(Sos) + SilenceUnits) =>
        StripTrailing(morse.text) = <<"S", "O", "S">>

----------------------------------------------------------------------------
(* The last stage of demodulate.  An audio sample is held in hundredths of    *)
(* full scale.  What decimation and the filters deliver to the last stage is  *)
(* an input here: any finite sequence of samples.                             *)

\* full scale (1.0) in hundredths
FullScale == 100

Abs(x) == IF x < 0 THEN -x ELSE x

\* np.max(np.abs(audio)) of a block that is not empty
MaxAbs(audio) ==
    CHOOSE m \in {Abs(audio[i]) : i \in 1 .. Len(audio)} :
        \A i \in 1 .. Len(audio) : Abs(audio[i]) <= m

\* Normalize without the division
NormalizeNoDivide(audio) == audio

\* AM and SSB: audio / max_val if max_val > 0, else audio
Normalize(audio) ==
    LET max_val == MaxAbs(audio)
    IN  IF max_val > 0
        THEN [i \in 1 .. Len(audio) |-> RoundDiv(audio[i] * FullScale, max_val)]
        ELSE audio

\* FM: np.clip(audio_deemph, -1, 1)
ClipAudio(audio) ==
    [i \in 1 .. Len(audio) |-> Clip(audio[i], -FullScale, FullScale)]

\* the audio block demodulate returns, from what its filters delivered
demodulate_audio(d, filtered) ==
    IF d.kind = "FM" THEN ClipAudio(filtered) ELSE Normalize(filtered)

\* samples delivered by the filters, in hundredths: silence, inside, at and
\* beyond full scale
FilteredSamples == {-300, -100, -50, 0, 50, 100, 250}

\* the longest block of filtered audio
MaxAudioLen == 2

FilteredBlocks ==
    UNION {[1 .. n -> FilteredSamples] : n \in 1 .. MaxAudioLen}

InitAudio ==
    /\ demod \in {NewDemodulator(1, kind, 2400000, AudioRate) : kind \in Kinds}
    /\ ev = NoEvent
    /\ hist = NewHist
    /\ scen = NoScenario
    /\ wf = NewWaterfallSettings
    /\ morse = NewMorseDecoder
    /\ app = NoApp

\* demodulate on a block long enough for decimate
DemodulateAudio ==
    \E last \in AppLastPhases, filtered \in FilteredBlocks :
        /\ demod' = demodulate(demod, AppBlock(last))
        /\ ev' = [op |-> "demodulate", filtered |-> filtered,
                  audio |-> demodulate_audio(demod, filtered)]
        /\ UNCHANGED <<hist, scen, wf, app, morse>>

NextAudio == DemodulateAudio

SpecAudio == InitAudio /\ [][NextAudio]_vars

\* C11: every sample of every audio block demodulate returns lies in [-1, 1],
\* in all four modes; with AM, USB and LSB a block whose peak is 0 is all zeros.
C11_AudioBounded ==
    ev.op = "demodulate" =>
        /\ \A i \in 1 .. Len(ev.audio) :
              ev.audio[i] >= -FullScale /\ ev.audio[i] <= FullScale
        /\ (demod.kind # "FM" /\ MaxAbs(ev.filtered) = 0) =>
              \A i \in 1 .. Len(ev.audio) : ev.audio[i] = 0

\* an AM/SSB block beyond full scale was normalized
C11_Witness ==
    /\ ev.op = "demodulate"
    /\ demod.kind = "AM"
    /\ ev.filtered = <<250, -300>>
    /\ ev.audio = <<83, -100>>

----------------------------------------------------------------------------
(* Construction of a demodulator with any audio rate.  scipy's butter raises  *)
(* ValueError unless every critical frequency Wn = f / (audio_rate / 2) has   *)
(* 0 < Wn < 1.                                                                *)

\* cutoff_freq of the low-pass every mode designs, in Hz
DefaultCutoff == 15000

\* the cutoff SSBDemodulator passes on, and its band-pass's upper edge, in Hz
SsbCutoff == 3000

\* the highest critical frequency of the filters the constructor designs
CutoffFreq(kind) == IF kind \in {"USB", "LSB"} THEN SsbCutoff ELSE DefaultCutoff

\* ConstructError that lets every filter design through
ConstructErrorNever(kind, sample_rate, audio_rate) == ""

\* the exception the constructor raises, "" for none
ConstructError(kind, sample_rate, audio_rate) ==
    IF 2 * CutoffFreq(kind) >= audio_rate THEN "ValueError" ELSE ""

\* audio rates asked of the constructor, in Hz: twice the SSB band edge, just
\* above it, twice the low-pass cutoff, just above it, and common sound-card
\* rates
AudioRates == {6000, 8000, 30000, 32000, 44100, AudioRate}

InitConstruct ==
    /\ demod = NewDemodulator(1, "FM", 2400000, AudioRate)
    /\ ev = NoEvent
    /\ hist = NewHist
    /\ scen = NoScenario
    /\ wf = NewWaterfallSettings
    /\ morse = NewMorseDecoder
    /\ app = NoApp

\* a caller constructs a demodulator and, unless the constructor raises, uses
\* it from then on
Construct ==
    \E kind \in Kinds, sample_rate \in SampleRates, audio_rate \in AudioRates :
        LET error == ConstructError(kind, sample_rate, audio_rate)
        IN  /\ demod.id < MaxInstances
            /\ demod' = IF error = ""
                        THEN NewDemodulator(demod.id + 1, kind, sample_rate, audio_rate)
                        ELSE demod
            /\ ev' = [op |-> "construct", kind |-> kind, audio_rate |-> audio_rate,
                      error |-> error]
            /\ UNCHANGED <<hist, scen, wf, app, morse>>

\* demodulate on the instance in use
DemodulateConstructed ==
    \E last \in AppLastPhases :
        /\ demod' = demodulate(demod, AppBlock(last))
        /\ ev' = [op |-> "demodulate", filtered |-> <<>>, audio |-> <<>>]
        /\ UNCHANGED <<hist, scen, wf, app, morse>>

NextConstruct == Construct \/ DemodulateConstructed

SpecConstruct == InitConstruct /\ [][NextConstruct]_vars

\* C15: a demodulator whose filter cutoff is at or above the audio Nyquist
\* frequency is refused by its constructor (15 kHz low-pass of every mode,
\* 3000 Hz band edge of SSB), so the instance in use, and so every instance
\* demodulate runs on, has its cutoff below audio_rate / 2.
C15_CutoffBelowNyquist ==
    /\ 2 * CutoffFreq(demod.kind) < demod.audio_rate
    /\ (ev.op = "construct" /\ 2 * CutoffFreq(ev.kind) >= ev.audio_rate) =>
          ev.error = "ValueError"

\* an SSB demodulator was asked for with the band edge at the Nyquist frequency
C15_Witness ==
    /\ ev.op = "construct"
    /\ ev.kind = "USB"
    /\ ev.audio_rate = 2 * SsbCutoff
    /\ ev.error = "ValueError"

----------------------------------------------------------------------------
(* The FFT size control of the two applications.  Widths are counted in the   *)
(* bins of the frames above: the applications' 1024 bins are one bin here.    *)

\* the widths the control offers
FftSizes == {1, 2}

\* fft_size and the width of waterfall_data after construction
NewDisplay == [name |-> "display", fft_size |-> 1, waterfall_width |-> 1]

\* on_fft_size_changed that leaves the display buffer as it is
on_fft_size_changed_keep_buffer(a, size) == [a EXCEPT !.fft_size = size]

\* on_fft_size_changed / handle_set_fft_size: the new size and a zeroed buffer
\* of that width
on_fft_size_changed(a, size) ==
    [a EXCEPT !.fft_size = size, !.waterfall_width = size]

\* block powers the display loop sees, in dB
DisplayPowers == {0}

InitFftSize ==
    /\ app = NewDisplay
    /\ demod = NewDemodulator(1, "FM", 2400000, AudioRate)
    /\ ev = NoEvent
    /\ hist = NewHist
    /\ scen = NoScenario
    /\ wf = NewWaterfallSettings
    /\ morse = NewMorseDecoder

OnFftSizeChanged ==
    \E size \in FftSizes :
        /\ app' = on_fft_size_changed(app, size)
        /\ ev' = [op |-> "on_fft_size_changed", size |-> size]
        /\ UNCHANGED <<demod, hist, scen, wf, morse>>

\* one frame with audio on: fft_size samples are read, compute_fft_db gives
\* fft_size bins, apply_processing shapes them, and the block goes through
\* detect_signal and, gate open, demodulate
DisplayFrame ==
    \E pwr \in DisplayPowers, last \in AppLastPhases,
       frame \in {f \in Frames : Len(f) = app.fft_size} :
        LET detected == detect_signal(demod, [n |-> DecimatePadLen + 1, pwr |-> pwr])
        IN  /\ wf' = apply_processing(wf, frame)
            /\ demod' = IF detected.last_signal_detected
                        THEN demodulate(detected, AppBlock(last))
                        ELSE detected
            /\ ev' = [op |-> "update_display", detect_id |-> demod.id,
                      ret |-> detected.last_signal_detected,
                      demod_id |-> IF detected.last_signal_detected THEN demod.id ELSE 0,
                      played |-> detected.last_signal_detected]
            /\ UNCHANGED <<hist, scen, app, morse>>

\* the squelch slider / the web client's set_squelch
DisplaySetSquelch ==
    \E value \in SliderValues :
        /\ demod' = set_squelch(demod, value)
        /\ ev' = [op |-> "on_squelch_changed"]
        /\ UNCHANGED <<hist, scen, wf, app, morse>>

NextFftSize == OnFftSizeChanged \/ DisplayFrame \/ SetPeakHold \/ DisplaySetSquelch

SpecFftSize == InitFftSize /\ [][NextFftSize]_vars

\* C16: changing the FFT size gives the display buffer the new width, the peak
\* buffer has the new width after the next frame with peak hold on, and the
\* change leaves the demodulator (squelch threshold, smoothed power, last gate
\* state, mode, FM last phase) as it was.
C16_FftSizeChange ==
    /\ [](ev.op = "on_fft_size_changed" =>
            (app.fft_size = ev.size /\ app.waterfall_width = ev.size))
    /\ []((ev.op = "update_display" /\ wf.peak_hold) =>
            (~wf.peak_buffer.none /\ Len(wf.peak_buffer.v) = app.fft_size))
    /\ [][ev'.op = "on_fft_size_changed" => demod' = demod]_vars

\* the size was changed with the gate open, an FM phase remembered, a moved
\* threshold and a peak buffer of the old width
C16_Witness ==
    /\ ev.op = "on_fft_size_changed"
    /\ ev.size = 2
    /\ app.waterfall_width = 2
    /\ demod.last_signal_detected
    /\ demod.last_phase = 3
    /\ demod.squelch_threshold = 0
    /\ wf.peak_hold
    /\ ~wf.peak_buffer.none
    /\ Len(wf.peak_buffer.v) = 1

----------------------------------------------------------------------------
(* The Morse decoder fed any blocks and reset at any time.  scen.incs is the  *)
(* concatenation of the increments feed has returned since construction or    *)
(* the last reset, scen.feeds the number of feed calls so far.                *)

\* feed calls in one behaviour
MaxFeeds == 6

\* reset that keeps the decoded text
reset_keeps_text(m) ==
    [m EXCEPT !.code = <<>>, !.last_state = 0, !.state_duration = 0]

\* reset(): partial code, decoded text and timing accumulators back to their
\* initial values
reset(m) ==
    [m EXCEPT !.code = <<>>, !.text = <<>>, !.last_state = 0, !.state_duration = 0]

getDecodedText(m) == m.text

\* durations of the blocks fed, in ms: a dot and a character gap
FeedDurations == {DotDuration, CharGap}

InitMorseReset ==
    /\ demod = NewDemodulator(1, "FM", 2400000, AudioRate)
    /\ ev = NoEvent
    /\ hist = NewHist
    /\ scen = [name |-> "morse_reset", incs |-> <<>>, feeds |-> 0, resets |-> 0]
    /\ wf = NewWaterfallSettings
    /\ morse = NewMorseDecoder
    /\ app = NoApp

FeedAnyBlock ==
    \E avg \in ToneAmplitudes \cup {0}, duration \in FeedDurations :
        LET increment == feed_increment(morse, avg, duration)
        IN  /\ scen.feeds < MaxFeeds
            /\ morse' = feed(morse, avg, duration)
            /\ scen' = [scen EXCEPT !.incs = @ \o increment, !.feeds = @ + 1]
            /\ ev' = [op |-> "feed", increment |-> increment]
            /\ UNCHANGED <<demod, hist, wf, app>>

ResetMorse ==
    /\ morse' = reset(morse)
    /\ scen' = [scen EXCEPT !.incs = <<>>,
                            !.resets = IF morse.text # <<>> THEN 1 ELSE @]
    /\ ev' = [op |-> "reset", increment |-> <<>>]
    /\ UNCHANGED <<demod, hist, wf, app>>

NextMorseReset == FeedAnyBlock \/ ResetMorse

SpecMorseReset == InitMorseReset /\ [][NextMorseReset]_vars

\* C17: the decoded text is the in-order concatenation of the increments feed
\* has returned since construction or the last reset, and a decoder that has
\* just been reset is in the state of a new one (no partial code, no text,
\* lastState 0, stateDuration 0).
C17_TextIsIncrements ==
    /\ getDecodedText(morse) = scen.incs
    /\ ev.op = "reset" => morse = NewMorseDecoder

\* text was decoded, the decoder was reset, and text was decoded again
C17_Witness ==
    /\ scen.name = "morse_reset"
    /\ scen.resets = 1
    /\ ev.op = "feed"
    /\ ev.increment # <<>>
    /\ getDecodedText(morse) = <<"E">>

----------------------------------------------------------------------------
(* Peak hold given a spike and then silence.  The frames have two bins; the   *)
(* spike frame is 0 dB in the first and scen.spike dB in the second, the      *)
(* frames after it are 0 dB in both.  scen.zeros is -1 before the spike       *)
(* frame, then the number of zero frames processed since.  The settings are   *)
(* made before the first frame and peak hold is on.                           *)

\* zero frames after the spike
MaxZeroFrames == 3

\* the spike's height, in dB
SpikeValues == {5, 20, 40}

\* brightness, in dB, and contrast, in tenths, set before the frames
PeakBrightness == {-10, 0, 50}

PeakContrasts == {10, 30}

\* upper ends of the display range, in dB
PeakMaxDbs == {0, 20}

SpikeBin == 2

SpikeFrame(sc) == <<0, sc.spike>>

ZeroFrame == <<0, 0>>

InitPeakDecay ==
    /\ demod = NewDemodulator(1, "FM", 2400000, AudioRate)
    /\ ev = NoEvent
    /\ hist = NewHist
    /\ scen \in [name : {"peak_decay"}, spike : SpikeValues, zeros : {-1}]
    /\ \E c \in PeakContrasts, b \in PeakBrightness, mx \in PeakMaxDbs :
           wf = set_peak_hold(
                    set_range(set_brightness(set_contrast(NewWaterfallSettings, c), b),
                              NewWaterfallSettings.min_db, mx),
                    TRUE)
    /\ morse = NewMorseDecoder
    /\ app = NoApp

FeedSpikeFrame ==
    /\ scen.name = "peak_decay"
    /\ scen.zeros = -1
    /\ wf' = apply_processing(wf, SpikeFrame(scen))
    /\ scen' = [scen EXCEPT !.zeros = 0]
    /\ ev' = [op |-> "apply_processing", frame |-> SpikeFrame(scen),
              out |-> apply_processing_out(wf, SpikeFrame(scen)),
              prev_peak |-> wf.peak_buffer, run |-> 0]
    /\ UNCHANGED <<demod, hist, app, morse>>

FeedZeroFrame ==
    /\ scen.name = "peak_decay"
    /\ scen.zeros >= 0
    /\ scen.zeros < MaxZeroFrames
    /\ wf' = apply_processing(wf, ZeroFrame)
    /\ scen' = [scen EXCEPT !.zeros = @ + 1]
    /\ ev' = [op |-> "apply_processing", frame |-> ZeroFrame,
              out |-> apply_processing_out(wf, ZeroFrame),
              prev_peak |-> wf.peak_buffer, run |-> 0]
    /\ UNCHANGED <<demod, hist, app, morse>>

NextPeakDecay == FeedSpikeFrame \/ FeedZeroFrame

SpecPeakDecay == InitPeakDecay /\ [][NextPeakDecay]_vars

\* the spike bin of the peak buffer is the peak before the call times peak_decay
SpikeBinDecayed ==
    wf.peak_buffer.v[SpikeBin] =
        RoundDiv(ev.prev_peak.v[SpikeBin] * wf.peak_decay, 100)

\* the spike bin of the frame returned is the peak clipped to the display range
SpikeBinShown ==
    ev.out[SpikeBin] =
        Clip(wf.peak_buffer.v[SpikeBin], Deci(wf.min_db), Deci(wf.max_db))

\* C18, as stated: on every zero frame after the spike frame the spike bin of
\* the peak buffer is multiplied by peak_decay, and the value returned is that
\* peak clipped to the display range.
C18_AsStated ==
    (scen.name = "peak_decay" /\ scen.zeros >= 1) =>
        (SpikeBinDecayed /\ SpikeBinShown)

\* C18: the spike frame sets the spike bin of the peak buffer to the adjusted
\* spike (spike + brightness) * contrast; on every zero frame after it the bin
\* is the larger of the adjusted zero level brightness * contrast and the peak
\* times peak_decay, which with brightness <= 0 is the peak times peak_decay;
\* the value returned is the peak clipped to the display range.
C18_PeakDecays ==
    /\ (scen.name = "peak_decay" /\ scen.zeros = 0) =>
          wf.peak_buffer.v[SpikeBin] = (scen.spike + wf.brightness) * wf.contrast
    /\ (scen.name = "peak_decay" /\ scen.zeros >= 1) =>
          /\ wf.brightness <= 0 => SpikeBinDecayed
          /\ wf.brightness > 0 =>
                (SpikeBinDecayed \/
                    wf.peak_buffer.v[SpikeBin] = wf.brightness * wf.contrast)
          /\ wf.peak_buffer.v[SpikeBin] >= wf.brightness * wf.contrast
          /\ SpikeBinShown

\* a 20 dB spike under the default contrast and brightness has decayed three
\* times, to 17.2 dB, and is shown unclipped
C18_Witness ==
    /\ scen.name = "peak_decay"
    /\ scen.zeros = 3
    /\ scen.spike = 20
    /\ wf.brightness = 0
    /\ wf.contrast = 10
    /\ wf.peak_buffer.v[SpikeBin] = 172
    /\ ev.out[SpikeBin] = 172

----------------------------------------------------------------------------
(* compute_fft_db.  A complex number is a pair <<re, im>>; samples are in     *)
(* hundredths, the window's weights in hundredths, so a windowed sample is in *)
(* units of 1e-4.  The FFT sizes are the powers of two up to 4, whose twiddle *)
(* factors are powers of -i.  A bin is held as its squared magnitude, of      *)
(* which the dB value 20*log10(magnitude + 1e-10) is an increasing function.  *)

\* the longest block given to compute_fft_db
MaxBlockLen == 4

\* np.hamming(n), in hundredths: 0.54 - 0.46 * cos(2*pi*i / (n - 1)), and
\* [1.0] for n = 1
Hamming(n) ==
    CASE n = 0 -> <<>>
      [] n = 1 -> <<100>>
      [] n = 2 -> <<8, 8>>
      [] n = 3 -> <<8, 100, 8>>
      [] n = 4 -> <<8, 77, 77, 8>>
      [] n = 5 -> <<8, 54, 100, 54, 8>>
      [] n = 6 -> <<8, 40, 91, 91, 40, 8>>

\* samples * window
Windowed(samples) ==
    [i \in 1 .. Len(samples) |->
        <<samples[i][1] * Hamming(Len(samples))[i],
          samples[i][2] * Hamming(Len(samples))[i]>>]

\* the input of the transform left at its own length
ResizeNot(x, n) == x

\* np.fft.fft's n argument: the input cropped to its first n samples or padded
\* with zeros to n
Resize(x, n) ==
    [i \in 1 .. n |-> IF i <= Len(x) THEN x[i] ELSE <<0, 0>>]

\* z * (-i)^q
RECURSIVE Rot(_, _)
Rot(z, q) == IF q = 0 THEN z ELSE Rot(<<z[2], -z[1]>>, q - 1)

RECURSIVE SumC(_)
SumC(x) ==
    IF x = <<>> THEN <<0, 0>>
    ELSE LET rest == SumC(Tail(x))
         IN  <<x[1][1] + rest[1], x[1][2] + rest[2]>>

\* bin k (0-based) of the discrete Fourier transform of x, Len(x) in {1, 2, 4}
Dft(x, k) ==
    SumC([i \in 1 .. Len(x) |-> Rot(x[i], (((i - 1) * k * 4) \div Len(x)) % 4)])

\* np.fft.fftshift: the 0-based bin that lands at 1-based position j
ShiftedBin(n, j) == (j - 1 + n - n \div 2) % n

MagnitudeSq(z) == z[1] * z[1] + z[2] * z[2]

compute_fft_db(samples, fft_size) ==
    LET x == Resize(Windowed(samples), fft_size)
    IN  [j \in 1 .. Len(x) |-> MagnitudeSq(Dft(x, ShiftedBin(Len(x), j)))]

\* IQ samples, in hundredths
FftSamples == {<<0, 0>>, <<100, 0>>, <<0, -100>>}

FftBlocks == UNION {[1 .. n -> FftSamples] : n \in 0 .. MaxBlockLen}

FftSizeInputs == {1, 2, 4}

InitFft ==
    /\ demod = NewDemodulator(1, "FM", 2400000, AudioRate)
    /\ ev = NoEvent
    /\ hist = NewHist
    /\ scen = NoScenario
    /\ wf = NewWaterfallSettings
    /\ morse = NewMorseDecoder
    /\ app = NoApp

ComputeFftDb ==
    \E samples \in FftBlocks, fft_size \in FftSizeInputs :
        /\ ev' = [op |-> "compute_fft_db", samples |-> samples, fft_size |-> fft_size,
                  out |-> compute_fft_db(samples, fft_size)]
        /\ UNCHANGED <<demod, hist, scen, wf, app, morse>>

NextFft == ComputeFftDb

SpecFft == InitFft /\ [][NextFft]_vars

\* C19: compute_fft_db returns fft_size values whatever the block's length; of
\* a longer block only the first fft_size samples count (two blocks of one
\* length that agree on them give the same frame), and a shorter block counts
\* with zeros after it, so the zero-frequency bin, at the centre after the
\* shift, is the sum of the first min(length, fft_size) windowed samples.
C19_FrameLength ==
    ev.op = "compute_fft_db" =>
        /\ Len(ev.out) = ev.fft_size
        /\ \A other \in FftBlocks :
              (/\ Len(other) = Len(ev.samples)
               /\ \A i \in 1 .. Len(other) : i <= ev.fft_size => other[i] = ev.samples[i])
              => compute_fft_db(other, ev.fft_size) = ev.out
        /\ ev.out[ev.fft_size \div 2 + 1] =
              MagnitudeSq(SumC(SubSeq(Windowed(ev.samples), 1,
                                      Min(Len(ev.samples), ev.fft_size))))

\* a block of three samples went into two bins, its last sample not zero
C19_Witness ==
    /\ ev.op = "compute_fft_db"
    /\ ev.samples = <<<<100, 0>>, <<0, -100>>, <<100, 0>>>>
    /\ ev.fft_size = 2
    /\ Len(ev.out) = 2

----------------------------------------------------------------------------
(* The web application's 'start' and 'stop' events against its update_loop    *)
(* threads: a stopped loop ends only when it next tests self.running.         *)

\* update_loop threads alive at once
MaxLoopThreads == 2

\* handle_start while a stopped loop may still be alive
HandleStartAgain ==
    /\ ~app.running => Len(app.threads) < MaxLoopThreads
    /\ app' = IF app.running THEN app
              ELSE [app EXCEPT !.running = TRUE, !.threads = Append(@, NewThread)]
    /\ ev' = WebEvent
    /\ UNCHANGED <<demod, hist, scen, wf, morse>>

NextWebLoops == HandleStartAgain \/ HandleStop \/ HandleSetAudioEnable \/ UpdateLoop

SpecWebLoops == InitWeb /\ [][NextWebLoops]_vars

\* the thread is between its detect_signal call and the end of its cycle
InAudioPath(t) == t.pc \in {"detect", "demodulate"}

\* C20, as stated: after any sequence of 'start' and 'stop' events at most one
\* update_loop thread is alive, so no two threads are inside the audio path of
\* one cycle (detect_signal, demodulate) at once.
C20_AsStated ==
    /\ Len(app.threads) <= 1
    /\ \A i, j \in 1 .. Len(app.threads) :
          (InAudioPath(app.threads[i]) /\ InAudioPath(app.threads[j])) => i = j


----------------------------------------------------------------------------
(* The web application's update_loop against set_fft_size.  One cycle of the  *)
(* loop is taken in two steps: the frame is computed at the fft_size read at  *)
(* the top of the cycle, then stored in row 0 of waterfall_data; an exception *)
(* anywhere in the cycle ends the thread and leaves self.running as it is.    *)

NewWebFft ==
    [ name |-> "web", fft_size |-> 1, waterfall_width |-> 1,
      running |-> FALSE, threads |-> <<>> ]

InitWebFft ==
    /\ app = NewWebFft
    /\ demod = NewDemodulator(1, "FM", 2400000, AudioRate)
    /\ ev = NoEvent
    /\ hist = NewHist
    /\ scen = NoScenario
    /\ wf = NewWaterfallSettings
    /\ morse = NewMorseDecoder

HandleSetFftSize ==
    \E size \in FftSizes :
        /\ app' = on_fft_size_changed(app, size)
        /\ ev' = WebEvent
        /\ UNCHANGED <<demod, hist, scen, wf, morse>>

\* samples, compute_fft_db and apply_processing at the current fft_size
LoopCompute(i) ==
    \E frame \in {f \in Frames : Len(f) = app.fft_size} :
        /\ app.threads[i].pc = "frame"
        /\ wf' = apply_processing(wf, frame)
        /\ app' = [app EXCEPT !.threads[i] =
                      [pc |-> "store", samples |-> NoSamples, gate_id |-> 0,
                       width |-> Len(frame)]]
        /\ ev' = WebEvent
        /\ UNCHANGED <<demod, hist, scen, morse>>

\* self.waterfall_data[0, :] = fft_processed raises ValueError when the widths
\* differ; otherwise the image is sent and the cycle ends in its sleep
LoopStore(i) ==
    /\ app.threads[i].pc = "store"
    /\ app' = IF app.threads[i].width = app.waterfall_width
              THEN [app EXCEPT !.threads[i] = NewThread]
              ELSE [app EXCEPT !.threads = Remove(@, i)]
    /\ ev' = [op |-> "loop_store",
              raised |-> app.threads[i].width # app.waterfall_width]
    /\ UNCHANGED <<demod, hist, scen, wf, morse>>

UpdateLoopFft ==
    \E i \in 1 .. Len(app.threads) : LoopWhile(i) \/ LoopCompute(i) \/ LoopStore(i)

NextWebFft ==
    HandleStart \/ HandleStop \/ HandleSetFftSize \/ SetPeakHold \/ UpdateLoopFft

SpecWebFft == InitWebFft /\ [][NextWebFft]_vars

\* C21, as stated: whenever running is true an update_loop thread is alive,
\* also when set_fft_size or set_peak_hold are handled during a loop cycle, so
\* 'start' is never answered 'Already running' with no loop active.
C21_AsStated == app.running => Len(app.threads) >= 1


----------------------------------------------------------------------------
(* SSBDemodulator.demodulate up to its first step: the real signal taken from *)
(* the complex IQ samples, before decimation, band-pass filter and            *)
(* normalization.  A sample is a pair <<re, im>>.                             *)

Re(z) == z[1]

Im(z) == z[2]

Conj(z) == <<z[1], -z[2]>>

\* audio = np.real(iq_samples) for USB, np.imag(iq_samples) for LSB
ssb_audio(d, iq_samples) ==
    [i \in 1 .. Len(iq_samples) |->
        IF d.kind = "USB" THEN Re(iq_samples[i]) ELSE Im(iq_samples[i])]

InitSsb ==
    /\ \E mode \in {"USB", "LSB"} : demod = NewDemodulator(1, mode, 2400000, AudioRate)
    /\ ev = NoEvent
    /\ hist = NewHist
    /\ scen = NoScenario
    /\ wf = NewWaterfallSettings
    /\ morse = NewMorseDecoder
    /\ app = NoApp

SsbDemodulate ==
    \E iq_samples \in FftBlocks :
        /\ ev' = [op |-> "ssb_demodulate", iq_samples |-> iq_samples,
                  audio |-> ssb_audio(demod, iq_samples)]
        /\ UNCHANGED <<demod, hist, scen, wf, app, morse>>

NextSsb == SsbDemodulate

SpecSsb == InitSsb /\ [][NextSsb]_vars

\* C22, as stated: the LSB demodulator's core transform is the real part of
\* the complex conjugate of each sample, the USB demodulator's the real part
\* of the sample.
C22_AsStated ==
    ev.op = "ssb_demodulate" =>
        \A i \in 1 .. Len(ev.iq_samples) :
            ev.audio[i] = IF demod.kind = "LSB" THEN Re(Conj(ev.iq_samples[i]))
                          ELSE Re(ev.iq_samples[i])


----------------------------------------------------------------------------
(* The web application's set_peak_hold handler against apply_processing run   *)
(* by update_loop.  apply_processing is taken statement by statement:         *)
(*   "frame"       the frame is adjusted and self.peak_hold tested             *)
(*   "peak_test"   self.peak_buffer is None or of another length?             *)
(*   "peak_init"   self.peak_buffer = processed.copy()                        *)
(*   "peak_max"    np.maximum(processed, self.peak_buffer * self.peak_decay)  *)
(*   "peak_store"  self.peak_buffer = that maximum                            *)
(* scen.disables counts the times peak hold was disabled; scen.buffer_epoch   *)
(* is the count at which the oldest frame held in the peak buffer was taken.  *)
(* A thread remembers the count at the start of its cycle (started) and that  *)
(* of the buffer it read (recorded).                                          *)

\* times peak hold is disabled in one behaviour
MaxDisables == 2

InitWebPeak ==
    /\ app = NewWebFft
    /\ demod = NewDemodulator(1, "FM", 2400000, AudioRate)
    /\ ev = NoEvent
    /\ hist = NewHist
    /\ scen = [name |-> "web_peak", disables |-> 0, buffer_epoch |-> 0]
    /\ wf = NewWaterfallSettings
    /\ morse = NewMorseDecoder

HandleSetPeakHold ==
    \E enabled \in BOOLEAN :
        /\ ~enabled => scen.disables < MaxDisables
        /\ wf' = set_peak_hold(wf, enabled)
        /\ scen' = IF enabled THEN scen ELSE [scen EXCEPT !.disables = @ + 1]
        /\ ev' = WebEvent
        /\ UNCHANGED <<demod, hist, app, morse>>

\* the frame sent to the client at the end of a cycle
WaterfallUpdate(out, recorded, started) ==
    [op |-> "waterfall_update", out |-> out, recorded |-> recorded,
     started |-> started]

PeakRead(i) ==
    \E frame \in {f \in Frames : Len(f) = app.fft_size} :
        LET processed == Adjusted(wf, frame)
        IN  /\ app.threads[i].pc = "frame"
            /\ app' = [app EXCEPT !.threads[i] =
                          IF wf.peak_hold
                          THEN [pc |-> "peak_test", processed |-> processed,
                                started |-> scen.disables]
                          ELSE NewThread]
            /\ ev' = IF wf.peak_hold THEN WebEvent
                     ELSE WaterfallUpdate(ClipFrame(wf, processed), scen.disables,
                                          scen.disables)
            /\ UNCHANGED <<demod, hist, scen, wf, morse>>

PeakTest(i) ==
    LET t == app.threads[i]
    IN  /\ t.pc = "peak_test"
        /\ app' = [app EXCEPT !.threads[i].pc =
                      IF wf.peak_buffer.none \/ Len(wf.peak_buffer.v) # Len(t.processed)
                      THEN "peak_init" ELSE "peak_max"]
        /\ ev' = WebEvent
        /\ UNCHANGED <<demod, hist, scen, wf, morse>>

PeakInit(i) ==
    LET t == app.threads[i]
    IN  /\ t.pc = "peak_init"
        /\ wf' = [wf EXCEPT !.peak_buffer = [none |-> FALSE, v |-> t.processed]]
        /\ scen' = [scen EXCEPT !.buffer_epoch = t.started]
        /\ app' = [app EXCEPT !.threads[i] = NewThread]
        /\ ev' = WaterfallUpdate(ClipFrame(wf, t.processed), t.started, t.started)
        /\ UNCHANGED <<demod, hist, morse>>

\* None * self.peak_decay raises TypeError, which ends the thread
PeakMax(i) ==
    LET t == app.threads[i]
    IN  /\ t.pc = "peak_max"
        /\ app' = IF wf.peak_buffer.none
                  THEN [app EXCEPT !.threads = Remove(@, i)]
                  ELSE [app EXCEPT !.threads[i] =
                          [pc |-> "peak_store",
                           processed |->
                               [k \in 1 .. Len(t.processed) |->
                                   Max(t.processed[k],
                                       Decayed(wf, wf.peak_buffer.v[k]))],
                           started |-> t.started,
                           recorded |-> scen.buffer_epoch]]
        /\ ev' = WebEvent
        /\ UNCHANGED <<demod, hist, scen, wf, morse>>

PeakStore(i) ==
    LET t == app.threads[i]
    IN  /\ t.pc = "peak_store"
        /\ wf' = [wf EXCEPT !.peak_buffer = [none |-> FALSE, v |-> t.processed]]
        /\ scen' = [scen EXCEPT !.buffer_epoch = t.recorded]
        /\ app' = [app EXCEPT !.threads[i] = NewThread]
        /\ ev' = WaterfallUpdate(ClipFrame(wf, t.processed), t.recorded, t.started)
        /\ UNCHANGED <<demod, hist, morse>>

UpdateLoopPeak ==
    \E i \in 1 .. Len(app.threads) :
        LoopWhile(i) \/ PeakRead(i) \/ PeakTest(i) \/ PeakInit(i) \/ PeakMax(i)
            \/ PeakStore(i)

NextWebPeak == HandleStart \/ HandleStop \/ HandleSetPeakHold \/ UpdateLoopPeak

SpecWebPeak == InitWebPeak /\ [][NextWebPeak]_vars

\* C29, as stated: a frame whose cycle began after peak hold was last disabled
\* shows no peak recorded before that disable: the first frame after a
\* disable-then-enable starts the buffer anew, for every interleaving of the
\* handler with the loop.
C29_AsStated ==
    ev.op = "waterfall_update" => ev.recorded >= ev.started


----------------------------------------------------------------------------
(* The squelch gate under an input that settles: after any blocks and any     *)
(* threshold changes (scen.phase = "before"), every further block has the     *)
(* same power scen.pwr (scen.phase = "steady") and the threshold stays.       *)
(* Blocks keep coming while the input is steady; scen.tick is the parity of   *)
(* their number.                                                              *)

InitSteady ==
    /\ demod = NewDemodulator(1, "FM", 2400000, AudioRate)
    /\ ev = NoEvent
    /\ hist = NewHist
    /\ scen = [name |-> "steady", phase |-> "before", pwr |-> 0, tick |-> 0]
    /\ wf = NewWaterfallSettings
    /\ morse = NewMorseDecoder
    /\ app = NoApp

\* detect_signal on any block, the empty one included
FeedBefore ==
    \E blk \in Blocks :
        /\ scen.phase = "before"
        /\ demod' = detect_signal(demod, blk)
        /\ ev' = [op |-> "detect_signal", blk |-> blk,
                  was_open |-> demod.last_signal_detected,
                  ret |-> demod'.last_signal_detected, raised |-> FALSE]
        /\ UNCHANGED <<hist, scen, wf, app, morse>>

SetSquelchBefore ==
    \E t \in ThresholdInputs :
        /\ scen.phase = "before"
        /\ demod' = set_squelch(demod, t)
        /\ ev' = [NoEvent EXCEPT !.op = "set_squelch"]
        /\ UNCHANGED <<hist, scen, wf, app, morse>>

\* from here on every block has power pwr
StartSteady ==
    \E pwr \in Powers :
        /\ scen.phase = "before"
        /\ scen' = [scen EXCEPT !.phase = "steady", !.pwr = pwr]
        /\ ev' = [NoEvent EXCEPT !.op = "steady"]
        /\ UNCHANGED <<demod, hist, wf, app, morse>>

FeedSteady ==
    LET blk == [n |-> 1, pwr |-> scen.pwr]
    IN  /\ scen.phase = "steady"
        /\ demod' = detect_signal(demod, blk)
        /\ ev' = [op |-> "detect_signal", blk |-> blk,
                  was_open |-> demod.last_signal_detected,
                  ret |-> demod'.last_signal_detected, raised |-> FALSE]
        /\ scen' = [scen EXCEPT !.tick = 1 - @]
        /\ UNCHANGED <<hist, wf, app, morse>>

NextSteady == FeedBefore \/ SetSquelchBefore \/ StartSteady \/ FeedSteady

SpecSteady == InitSteady /\ [][NextSteady]_vars /\ WF_vars(FeedSteady)

\* C30, as stated: with squelch enabled and the threshold fixed, if every block
\* from some point on has the same power P > threshold the gate eventually
\* opens and stays open; if P < threshold - hysteresis it eventually closes
\* and stays closed.
C30_AsStated ==
    /\ <>[]((scen.phase = "steady" /\ scen.pwr > demod.squelch_threshold)
                => demod.last_signal_detected)
    /\ <>[]((scen.phase = "steady"
             /\ scen.pwr < demod.squelch_threshold - SquelchHysteresis)
                => ~demod.last_signal_detected)

----------------------------------------------------------------------------
(* The Morse decoder fed blocks of several durations.  scen.run is the total  *)
(* duration of the blocks fed since the classification last changed, kept     *)
(* apart from the decoder's own accumulator; scen.cls is the classification   *)
(* of the last block fed (0 before the first).  The event records the decoder *)
(* before the call and the duration of the run that the call ended.           *)

\* feed calls in one behaviour
MaxTimedFeeds == 6

\* durations of the blocks fed, in ms: a third of a dot, a dot, a little over
\* 0.7 character gaps and a little over 0.7 word gaps
TimedDurations == {20, 60, 130, 300}

InitMorseTiming ==
    /\ demod = NewDemodulator(1, "FM", 2400000, AudioRate)
    /\ ev = NoEvent
    /\ hist = NewHist
    /\ scen = [name |-> "morse_timing", feeds |-> 0, run |-> 0, cls |-> 0]
    /\ wf = NewWaterfallSettings
    /\ morse = NewMorseDecoder
    /\ app = NoApp

FeedTimedBlock ==
    \E avg \in {0, 5}, duration \in TimedDurations :
        LET current == IF avg > MorseThresholdTenths THEN 1 ELSE 0
        IN  /\ scen.name = "morse_timing"
            /\ scen.feeds < MaxTimedFeeds
            /\ morse' = feed(morse, avg, duration)
            /\ scen' = [scen EXCEPT !.feeds = @ + 1,
                                    !.run = IF current = scen.cls THEN @ + duration
                                            ELSE duration,
                                    !.cls = current]
            /\ ev' = [op |-> "feed_timed", before |-> morse, current |-> current,
                      ended |-> scen.run,
                      increment |-> feed_increment(morse, avg, duration)]
            /\ UNCHANGED <<demod, hist, wf, app>>

NextMorseTiming == FeedTimedBlock

SpecMorseTiming == InitMorseTiming /\ [][NextMorseTiming]_vars

\* C31: when a call ends a tone (lastState 1, the block is off) the pending
\* code gains '-' if the tone lasted at least 0.7 dash durations, else '.' if
\* it lasted at least 0.5 dot durations, else nothing, where the tone's
\* duration is the total duration of the consecutive blocks classified as on;
\* a call that ends no tone appends no symbol; after every call stateDuration
\* is the total duration of the blocks since the last transition, the block
\* of the call included.
C31_ToneClassification ==
    ev.op = "feed_timed" =>
        /\ morse.state_duration = scen.run
        /\ morse.last_state = ev.current
        /\ (ev.before.last_state = 1 /\ ev.current = 0) =>
               morse.code = ev.before.code \o
                   (IF 10 * ev.ended >= 7 * DashDuration THEN <<"-">>
                    ELSE IF 10 * ev.ended >= 5 * DotDuration THEN <<".">>
                    ELSE <<>>)
        /\ (ev.before.last_state = ev.current) =>
               /\ morse.code = ev.before.code
               /\ morse.state_duration = ev.before.state_duration + scen.run - ev.ended

\* after a dash, a tone of a third of a dot has ended and was dropped
C31_Witness ==
    /\ ev.op = "feed_timed"
    /\ ev.before.last_state = 1
    /\ ev.current = 0
    /\ ev.ended = 20
    /\ ev.before.code = <<"-">>
    /\ morse.code = <<"-">>

\* C32: when a call ends a gap (lastState 0, the block is on), a gap of at
\* least 0.7 word gaps finalizes the pending code as its character followed by
\* a space, a shorter gap of at least 0.7 character gaps as its character
\* alone, and a shorter gap changes neither the pending code nor the text; a
\* code without a table entry is finalized as '?'; after a finalization the
\* pending code is empty and the decoder goes on decoding.
C32_GapHandling ==
    (ev.op = "feed_timed" /\ ev.before.last_state = 0 /\ ev.current = 1) =>
        LET char == MorseTable(ev.before.code)
        IN  /\ 10 * ev.ended >= 7 * WordGap =>
                   /\ ev.increment = <<char, " ">>
                   /\ morse.code = <<>>
            /\ (10 * ev.ended < 7 * WordGap /\ 10 * ev.ended >= 7 * CharGap) =>
                   /\ ev.increment = <<char>>
                   /\ morse.code = <<>>
            /\ 10 * ev.ended < 7 * CharGap =>
                   /\ ev.increment = <<>>
                   /\ morse.code = ev.before.code
            /\ morse.text = ev.before.text \o ev.increment
            /\ (ev.before.code = <<>> /\ ev.increment # <<>>) => ev.increment[1] = "?"
            /\ morse.last_state = 1

\* a word gap before the first tone gave '?' and a space, and the decoder went
\* on to decode a dot as 'E' at a character gap
C32_Witness ==
    /\ ev.op = "feed_timed"
    /\ ev.before.last_state = 0
    /\ ev.current = 1
    /\ ev.before.code = <<".">>
    /\ ev.ended = 130
    /\ morse.text = <<"?", " ", "E">>

----------------------------------------------------------------------------
(* The waterfall buffer.  waterfall_data is a sequence of rows, row 0 of the  *)
(* code being the first; a row is a sequence of fft_size values.  The buffer  *)
(* is updated by update_display (desktop) and update_loop (web) with the same *)
(* two statements, and rebuilt by the FFT size handlers.  The frame stored is *)
(* what apply_processing returned for fft_size bins.                          *)

\* rows of the buffer (waterfall_height, 100 in the code)
WaterfallHeight == 3

\* values of a processed bin, in dB
RingValues == {-80, 20}

\* np.zeros((waterfall_height, fft_size))
ZeroRows(size) == [i \in 1 .. WaterfallHeight |-> [j \in 1 .. size |-> 0]]

\* a roll by one row towards row 0
RollUp(rows) ==
    [i \in 1 .. Len(rows) |-> rows[(i % Len(rows)) + 1]]

\* np.roll(waterfall_data, 1, axis=0): row i comes from row i - 1, row 0 from
\* the last row
Roll(rows) ==
    [i \in 1 .. Len(rows) |-> rows[((i + Len(rows) - 2) % Len(rows)) + 1]]

\* update_waterfall: the rolled buffer with fft_data in row 0
update_waterfall(rows, fft_data) ==
    [Roll(rows) EXCEPT ![1] = fft_data]

NewRing == [name |-> "ring", fft_size |-> 1, waterfall_data |-> ZeroRows(1)]

InitRing ==
    /\ app = NewRing
    /\ demod = NewDemodulator(1, "FM", 2400000, AudioRate)
    /\ ev = NoEvent
    /\ hist = NewHist
    /\ scen = NoScenario
    /\ wf = NewWaterfallSettings
    /\ morse = NewMorseDecoder

\* one frame of update_display / update_loop: the processed frame has
\* fft_size bins
UpdateWaterfall ==
    \E fft_processed \in [1 .. app.fft_size -> RingValues] :
        /\ app.name = "ring"
        /\ app' = [app EXCEPT
                     !.waterfall_data = update_waterfall(@, fft_processed)]
        /\ ev' = [op |-> "update_waterfall", fft_data |-> fft_processed,
                  old |-> app.waterfall_data]
        /\ UNCHANGED <<demod, hist, scen, wf, morse>>

\* on_fft_size_changed / handle_set_fft_size: a zeroed buffer of the new width
RingFftSizeChanged ==
    \E size \in FftSizes :
        /\ app.name = "ring"
        /\ app' = [app EXCEPT !.fft_size = size, !.waterfall_data = ZeroRows(size)]
        /\ ev' = [op |-> "on_fft_size_changed", size |-> size]
        /\ UNCHANGED <<demod, hist, scen, wf, morse>>

NextRing == UpdateWaterfall \/ RingFftSizeChanged

SpecRing == InitRing /\ [][NextRing]_vars

\* C33: the buffer always has waterfall_height rows; after an update with
\* frame f, row 0 is f and every row i >= 1 is row i - 1 of the buffer before
\* the update, whose last row is gone.
C33_FixedHeightRing ==
    /\ Len(app.waterfall_data) = WaterfallHeight
    /\ ev.op = "update_waterfall" =>
           /\ app.waterfall_data[1] = ev.fft_data
           /\ \A i \in 2 .. WaterfallHeight :
                  app.waterfall_data[i] = ev.old[i - 1]

\* the buffer is full of frames of two bins and the oldest, which differed
\* from the others, has just been discarded
C33_Witness ==
    /\ ev.op = "update_waterfall"
    /\ app.fft_size = 2
    /\ ev.old[WaterfallHeight] = <<-80, -80>>
    /\ \A i \in 1 .. WaterfallHeight : app.waterfall_data[i] = <<20, -80>>

----------------------------------------------------------------------------
(* IQRecorder.  app is the recorder, scen the world around it: scen.clock is  *)
(* the wall clock in whole seconds, scen.files the recordings directory, one  *)
(* possible file per clock second since a recording's name is its start time  *)
(* to the second.  A file is held as the number of samples in its dataset and *)
(* its attributes; current_file is the second in the open file's name, or -1  *)
(* for None.  scen.written is the number of samples passed to write_samples   *)
(* calls that returned since the last start_recording that returned.          *)

\* the last clock second of a behaviour
MaxClock == 1

\* samples written in one recording
MaxWritten == 2

\* len(iq_data) of the blocks written
WriteLens == {0, 1, 2}

\* sample rates asked of start_recording
RecordRates == {1, 2}

NoFile == [exists |-> FALSE, open |-> FALSE, size |-> 0, sample_rate |-> 0,
           start_time |-> -1, total_samples |-> -1]

\* IQRecorder.__init__
NewRecorder ==
    [name |-> "recorder", is_recording |-> FALSE, current_file |-> -1,
     sample_count |-> 0, sample_rate |-> 0, start_time |-> -1]

\* h5py.File(filepath, 'w') with an empty dataset and the attributes: whatever
\* was at that path is replaced
CreatedFile(sample_rate, now) ==
    [exists |-> TRUE, open |-> TRUE, size |-> 0, sample_rate |-> sample_rate,
     start_time |-> now, total_samples |-> -1]

\* write_samples that appends without counting
write_samples_uncounted(rec, files, n) ==
    IF ~rec.is_recording
    THEN [rec |-> rec, files |-> files, raised |-> TRUE]
    ELSE [rec |-> rec,
          files |-> [files EXCEPT ![rec.current_file].size = @ + n],
          raised |-> FALSE]

\* start_recording at clock second now
start_recording(rec, files, sample_rate, now) ==
    IF rec.is_recording
    THEN [rec |-> rec, files |-> files, raised |-> TRUE]
    ELSE [rec |-> [rec EXCEPT !.is_recording = TRUE, !.current_file = now,
                              !.sample_count = 0, !.sample_rate = sample_rate,
                              !.start_time = now],
          files |-> [files EXCEPT ![now] = CreatedFile(sample_rate, now)],
          raised |-> FALSE]

\* write_samples with a block of n samples
write_samples(rec, files, n) ==
    IF ~rec.is_recording
    THEN [rec |-> rec, files |-> files, raised |-> TRUE]
    ELSE [rec |-> [rec EXCEPT !.sample_count = @ + n],
          files |-> [files EXCEPT ![rec.current_file].size = @ + n],
          raised |-> FALSE]

\* stop_recording
stop_recording(rec, files) ==
    IF ~rec.is_recording
    THEN [rec |-> rec, files |-> files, raised |-> FALSE]
    ELSE [rec |-> [rec EXCEPT !.is_recording = FALSE, !.current_file = -1,
                              !.sample_count = 0, !.sample_rate = 0,
                              !.start_time = -1],
          files |-> [files EXCEPT ![rec.current_file].total_samples = rec.sample_count,
                                  ![rec.current_file].open = FALSE],
          raised |-> FALSE]

InitRecorder ==
    /\ app = NewRecorder
    /\ scen = [name |-> "recordings", clock |-> 0, written |-> 0,
               files |-> [t \in 0 .. MaxClock |-> NoFile]]
    /\ demod = NewDemodulator(1, "FM", 2400000, AudioRate)
    /\ ev = NoEvent
    /\ hist = NewHist
    /\ wf = NewWaterfallSettings
    /\ morse = NewMorseDecoder

StartRecording ==
    \E sample_rate \in RecordRates :
        LET out == start_recording(app, scen.files, sample_rate, scen.clock)
        IN  /\ app.name = "recorder"
            /\ app' = out.rec
            /\ scen' = [scen EXCEPT !.files = out.files,
                                    !.written = IF out.raised THEN @ ELSE 0]
            /\ ev' = [op |-> "start_recording", raised |-> out.raised,
                      rec |-> app, files |-> scen.files]
            /\ UNCHANGED <<demod, hist, wf, morse>>

WriteSamples ==
    \E n \in WriteLens :
        LET out == write_samples(app, scen.files, n)
        IN  /\ app.name = "recorder"
            /\ scen.written + n <= MaxWritten
            /\ app' = out.rec
            /\ scen' = [scen EXCEPT !.files = out.files,
                                    !.written = IF out.raised THEN @ ELSE @ + n]
            /\ ev' = [op |-> "write_samples", raised |-> out.raised,
                      rec |-> app, files |-> scen.files]
            /\ UNCHANGED <<demod, hist, wf, morse>>

StopRecording ==
    LET out == stop_recording(app, scen.files)
    IN  /\ app.name = "recorder"
        /\ app' = out.rec
        /\ scen' = [scen EXCEPT !.files = out.files]
        /\ ev' = [op |-> "stop_recording", raised |-> out.raised,
                  rec |-> app, files |-> scen.files]
        /\ UNCHANGED <<demod, hist, wf, morse>>

\* a second passes
ClockTick ==
    /\ app.name = "recorder"
    /\ scen.clock < MaxClock
    /\ scen' = [scen EXCEPT !.clock = @ + 1]
    /\ ev' = [op |-> "tick"]
    /\ UNCHANGED <<app, demod, hist, wf, morse>>

NextRecorder == StartRecording \/ WriteSamples \/ StopRecording \/ ClockTick

SpecRecorder == InitRecorder /\ [][NextRecorder]_vars

\* C34: start_recording raises exactly when a recording is active and then
\* leaves recorder and files as they were; write_samples raises exactly when
\* none is active and then writes nothing; stop_recording with none active
\* changes nothing and does not raise; while recording, sample_count is the
\* number of samples written since start_recording, which is the size of the
\* open file's dataset.
C34_OutOfOrderRejected ==
    /\ ev.op = "start_recording" =>
           /\ ev.raised <=> ev.rec.is_recording
           /\ ev.raised => (app = ev.rec /\ scen.files = ev.files)
    /\ ev.op = "write_samples" =>
           /\ ev.raised <=> ~ev.rec.is_recording
           /\ ev.raised => (app = ev.rec /\ scen.files = ev.files)
    /\ (ev.op = "stop_recording" /\ ~ev.rec.is_recording) =>
           (~ev.raised /\ app = ev.rec /\ scen.files = ev.files)
    /\ (app.name = "recorder" /\ app.is_recording) =>
           /\ app.sample_count = scen.written
           /\ scen.files[app.current_file].size = scen.written
           /\ scen.files[app.current_file].open

\* a second start_recording was refused while two samples had been written
C34_Witness ==
    /\ ev.op = "start_recording"
    /\ ev.raised
    /\ app.is_recording
    /\ app.sample_count = 2

\* C35, as stated: a start_recording never changes a completed recording (a
\* file that exists and is closed).
C35_AsStated ==
    [][\A t \in 0 .. MaxClock :
          (scen.files[t].exists /\ ~scen.files[t].open /\ ev'.op = "start_recording")
              => scen'.files[t] = scen.files[t]]_vars

----------------------------------------------------------------------------
(* IQPlayer.  app is the player; loaded says that dataset is an open dataset, *)
(* total is its length, sample_rate the 'sample_rate' attribute of the file   *)
(* (0 when the file has none).  The samples of a recording are numbered from  *)
(* 0, and a slice returned by read_samples is held by its bounds, from        *)
(* included and to excluded.  scen.got lists the numbers of the samples       *)
(* returned since the last load, seek or restart of a loop, in the order      *)
(* returned; scen.restarted says that a read has restarted the loop since     *)
(* then.                                                                      *)

\* samples in the longest recording
MaxTotal == 3

\* the recordings that can be loaded: length and sample rate attribute
Recordings == [total : 0 .. MaxTotal, sample_rate : {0, 2}]

\* num_samples asked of read_samples
ReadCounts == {0, 1, 2}

\* positions asked of seek
SeekPositions == {-1, 0, 2, MaxTotal + 1}

\* times asked of seek_time, in tenths of a second
SeekTenths == {-10, 0, 7, 10, 30}

\* IQPlayer.__init__
NewPlayer ==
    [name |-> "player", loaded |-> FALSE, total |-> 0, sample_rate |-> 0,
     position |-> 0, is_playing |-> FALSE, is_looping |-> FALSE]

NoSlice == [none |-> TRUE, from |-> 0, to |-> 0]

\* int(): truncation towards zero of a / b, b positive
TruncDiv(a, b) == IF a >= 0 THEN a \div b ELSE -((-a) \div b)

\* close
close(p) ==
    IF p.loaded
    THEN [p EXCEPT !.loaded = FALSE, !.total = 0, !.sample_rate = 0,
                   !.position = 0, !.is_playing = FALSE]
    ELSE p

\* load_recording of a file that opens and holds 'iq_data'
load_recording(p, rec) ==
    [close(p) EXCEPT !.loaded = TRUE, !.total = rec.total,
                     !.sample_rate = rec.sample_rate, !.position = 0]

\* start_playback: the player after the call, as it was when the call raises
start_playback(p, loop) ==
    IF ~p.loaded THEN p
    ELSE [p EXCEPT !.is_playing = TRUE, !.is_looping = loop]

\* stop_playback / pause_playback
stop_playback(p) == [p EXCEPT !.is_playing = FALSE]

\* read_samples that does not stop at the end of the dataset
read_samples_past_end(p, num_samples) ==
    IF ~p.loaded THEN [p |-> p, ret |-> NoSlice]
    ELSE IF p.position >= p.total /\ ~p.is_looping
    THEN [p |-> [p EXCEPT !.is_playing = FALSE], ret |-> NoSlice]
    ELSE LET position == IF p.position >= p.total THEN 0 ELSE p.position
             end_pos == position + num_samples
         IN  [p |-> [p EXCEPT !.position = end_pos],
              ret |-> [none |-> FALSE, from |-> position, to |-> end_pos]]

\* read_samples: the player after the call and what the call returns
read_samples(p, num_samples) ==
    IF ~p.loaded THEN [p |-> p, ret |-> NoSlice]
    ELSE IF p.position >= p.total /\ ~p.is_looping
    THEN [p |-> [p EXCEPT !.is_playing = FALSE], ret |-> NoSlice]
    ELSE LET position == IF p.position >= p.total THEN 0 ELSE p.position
             end_pos == Min(position + num_samples, p.total)
         IN  [p |-> [p EXCEPT !.position = end_pos],
              ret |-> [none |-> FALSE, from |-> position, to |-> end_pos]]

\* seek
seek(p, position) ==
    IF ~p.loaded THEN p
    ELSE [p EXCEPT !.position = Max(0, Min(position, p.total))]

\* seek_time, the time in tenths of a second
seek_time(p, tenths) ==
    IF ~p.loaded \/ p.sample_rate = 0 THEN p
    ELSE seek(p, TruncDiv(tenths * p.sample_rate, 10))

\* the numbers from .. to - 1 in order
SliceSamples(from, to) == [i \in 1 .. to - from |-> from + i - 1]

InitPlayer ==
    /\ app = NewPlayer
    /\ scen = [name |-> "playback", got |-> <<>>, restarted |-> FALSE]
    /\ demod = NewDemodulator(1, "FM", 2400000, AudioRate)
    /\ ev = NoEvent
    /\ hist = NewHist
    /\ wf = NewWaterfallSettings
    /\ morse = NewMorseDecoder

\* load_recording that succeeds
LoadRecording ==
    \E rec \in Recordings :
        /\ app.name = "player"
        /\ app' = load_recording(app, rec)
        /\ scen' = [scen EXCEPT !.got = <<>>, !.restarted = FALSE]
        /\ ev' = [op |-> "load_recording", raised |-> FALSE, p |-> app]
        /\ UNCHANGED <<demod, hist, wf, morse>>

\* load_recording of a file that does not open or holds no 'iq_data': the
\* player is closed and RuntimeError raised
LoadRecordingFails ==
    /\ app.name = "player"
    /\ app' = close(app)
    /\ scen' = [scen EXCEPT !.got = <<>>, !.restarted = FALSE]
    /\ ev' = [op |-> "load_recording", raised |-> TRUE, p |-> app]
    /\ UNCHANGED <<demod, hist, wf, morse>>

ClosePlayer ==
    /\ app.name = "player"
    /\ app' = close(app)
    /\ scen' = [scen EXCEPT !.got = <<>>, !.restarted = FALSE]
    /\ ev' = [op |-> "close", raised |-> FALSE, p |-> app]
    /\ UNCHANGED <<demod, hist, wf, morse>>

StartPlayback ==
    \E loop \in BOOLEAN :
        /\ app.name = "player"
        /\ app' = start_playback(app, loop)
        /\ ev' = [op |-> "start_playback", raised |-> ~app.loaded, p |-> app]
        /\ UNCHANGED <<scen, demod, hist, wf, morse>>

StopPlayback ==
    /\ app.name = "player"
    /\ app' = stop_playback(app)
    /\ ev' = [op |-> "stop_playback", raised |-> FALSE, p |-> app]
    /\ UNCHANGED <<scen, demod, hist, wf, morse>>

ReadSamples ==
    \E num_samples \in ReadCounts :
        LET out == read_samples(app, num_samples)
            restart == app.loaded /\ ~out.ret.none /\ out.ret.from # app.position
        IN  /\ app.name = "player"
            /\ app' = out.p
            /\ scen' = IF out.ret.none THEN scen
                       ELSE [scen EXCEPT
                               !.got = (IF restart THEN <<>> ELSE @)
                                           \o SliceSamples(out.ret.from, out.ret.to),
                               !.restarted = @ \/ restart]
            /\ ev' = [op |-> "read_samples", raised |-> FALSE, p |-> app,
                      num_samples |-> num_samples, ret |-> out.ret]
            /\ UNCHANGED <<demod, hist, wf, morse>>

Seek ==
    \E position \in SeekPositions :
        /\ app.name = "player"
        /\ app' = seek(app, position)
        /\ scen' = IF app.loaded
                   THEN [scen EXCEPT !.got = <<>>, !.restarted = FALSE]
                   ELSE scen
        /\ ev' = [op |-> "seek", raised |-> FALSE, p |-> app]
        /\ UNCHANGED <<demod, hist, wf, morse>>

SeekTime ==
    \E tenths \in SeekTenths :
        /\ app.name = "player"
        /\ app' = seek_time(app, tenths)
        /\ scen' = IF app.loaded /\ app.sample_rate # 0
                   THEN [scen EXCEPT !.got = <<>>, !.restarted = FALSE]
                   ELSE scen
        /\ ev' = [op |-> "seek_time", raised |-> FALSE, p |-> app]
        /\ UNCHANGED <<demod, hist, wf, morse>>

NextPlayer ==
    \/ LoadRecording \/ LoadRecordingFails \/ ClosePlayer \/ StartPlayback
    \/ StopPlayback \/ ReadSamples \/ Seek \/ SeekTime

SpecPlayer == InitPlayer /\ [][NextPlayer]_vars

\* C36: while a recording is loaded the position lies between 0 and the
\* length of the dataset, after every operation; without looping a read before
\* the end returns the slice that starts at the position and holds num_samples
\* samples or what is left, and moves the position to its end, so that the
\* slices returned since the last load or seek are consecutive, in order and
\* without overlap, and a read at the end returns None, clears is_playing and
\* leaves the position; with looping a read at the end returns the slice that
\* starts at 0 and never None.
C36_SequentialReads ==
    /\ (app.name = "player" /\ app.loaded) =>
           /\ 0 <= app.position /\ app.position <= app.total
           /\ Len(scen.got) <= app.position
           /\ scen.got = [i \in 1 .. Len(scen.got) |->
                              app.position - Len(scen.got) + i - 1]
    /\ (ev.op = "read_samples" /\ ev.p.loaded) =>
           /\ (~ev.p.is_looping /\ ev.p.position >= ev.p.total) =>
                  /\ ev.ret.none
                  /\ ~app.is_playing
                  /\ app.position = ev.p.position
           /\ (ev.p.is_looping /\ ev.p.position >= ev.p.total) =>
                  /\ ~ev.ret.none
                  /\ ev.ret.from = 0
                  /\ ev.ret.to = Min(ev.num_samples, ev.p.total)
                  /\ app.position = ev.ret.to
                  /\ app.is_playing = ev.p.is_playing
           /\ ev.p.position < ev.p.total =>
                  /\ ~ev.ret.none
                  /\ ev.ret.from = ev.p.position
                  /\ ev.ret.to = Min(ev.p.position + ev.num_samples, ev.p.total)
                  /\ app.position = ev.ret.to
                  /\ app.is_playing = ev.p.is_playing

\* a recording of three samples was played to its end in two reads and the
\* next read returned None and stopped the playback
C36_Witness ==
    /\ ev.op = "read_samples"
    /\ ev.p.loaded
    /\ ev.p.is_playing
    /\ ~ev.p.is_looping
    /\ ev.ret.none
    /\ ~app.is_playing
    /\ scen.got = <<0, 1, 2>>

----------------------------------------------------------------------------
(* SDRTransmitter.  app is the transmitter with the fields of its config that *)
(* it reads and writes; device says that _device is set.  SDRConfig itself    *)
(* is not among the repository's files: is_frequency_allowed_for_tx is taken  *)
(* to say whether the frequency lies in one of allowed_tx_bands, as open's    *)
(* error message puts it, and validate may return errors or none at any       *)
(* call.  Frequencies are in MHz.                                             *)

\* choices of config.allowed_tx_bands: none, one band, two bands
TxBandChoices ==
    { <<>>, << <<144, 148>> >>, << <<144, 148>>, <<430, 440>> >> }

\* frequencies asked for, none on the edge of a band
TxFrequencies == {100, 146, 433}

\* config.is_frequency_allowed_for_tx(frequency)
is_frequency_allowed_for_tx(t, frequency) ==
    \E i \in 1 .. Len(t.allowed_tx_bands) :
        /\ t.allowed_tx_bands[i][1] < frequency
        /\ frequency < t.allowed_tx_bands[i][2]

\* set_frequency that takes any frequency
set_frequency_unchecked(t, frequency) ==
    [t |-> [t EXCEPT !.center_frequency = frequency], ret |-> TRUE]

\* open, valid saying that config.validate() returned no errors
open(t, valid) ==
    IF ~t.tx_enabled THEN [t |-> t, ret |-> FALSE]
    ELSE IF ~valid THEN [t |-> t, ret |-> FALSE]
    ELSE IF ~is_frequency_allowed_for_tx(t, t.center_frequency)
    THEN [t |-> t, ret |-> FALSE]
    ELSE [t |-> [t EXCEPT !.device = TRUE], ret |-> TRUE]

\* stop_transmitting
stop_transmitting(t) == [t EXCEPT !.is_transmitting = FALSE]

\* close (of the transmitter)
tx_close(t) ==
    [(IF t.is_transmitting THEN stop_transmitting(t) ELSE t) EXCEPT !.device = FALSE]

\* set_frequency
set_frequency(t, frequency) ==
    IF ~is_frequency_allowed_for_tx(t, frequency)
    THEN [t |-> t, ret |-> FALSE]
    ELSE [t |-> [t EXCEPT !.center_frequency = frequency], ret |-> TRUE]

\* start_transmitting
start_transmitting(t) ==
    IF ~t.device \/ ~t.tx_enabled
    THEN [t |-> t, raised |-> TRUE]
    ELSE [t |-> [t EXCEPT !.is_transmitting = TRUE], raised |-> FALSE]

\* SDRTransmitter.__init__ with any config
InitTx ==
    /\ app \in [name : {"tx"}, is_transmitting : {FALSE}, device : {FALSE},
                tx_enabled : BOOLEAN, center_frequency : TxFrequencies,
                allowed_tx_bands : TxBandChoices]
    /\ scen = NoScenario
    /\ demod = NewDemodulator(1, "FM", 2400000, AudioRate)
    /\ ev = NoEvent
    /\ hist = NewHist
    /\ wf = NewWaterfallSettings
    /\ morse = NewMorseDecoder

TxOpen ==
    \E valid \in BOOLEAN :
        LET out == open(app, valid)
        IN  /\ app.name = "tx"
            /\ app' = out.t
            /\ ev' = [op |-> "open", ret |-> out.ret, raised |-> FALSE, t |-> app,
                      frequency |-> app.center_frequency]
            /\ UNCHANGED <<scen, demod, hist, wf, morse>>

TxClose ==
    /\ app.name = "tx"
    /\ app' = tx_close(app)
    /\ ev' = [op |-> "close", ret |-> FALSE, raised |-> FALSE, t |-> app,
              frequency |-> app.center_frequency]
    /\ UNCHANGED <<scen, demod, hist, wf, morse>>

TxSetFrequency ==
    \E frequency \in TxFrequencies :
        LET out == set_frequency(app, frequency)
        IN  /\ app.name = "tx"
            /\ app' = out.t
            /\ ev' = [op |-> "set_frequency", ret |-> out.ret, raised |-> FALSE,
                      t |-> app, frequency |-> frequency]
            /\ UNCHANGED <<scen, demod, hist, wf, morse>>

TxStartTransmitting ==
    LET out == start_transmitting(app)
    IN  /\ app.name = "tx"
        /\ app' = out.t
        /\ ev' = [op |-> "start_transmitting", ret |-> FALSE, raised |-> out.raised,
                  t |-> app, frequency |-> app.center_frequency]
        /\ UNCHANGED <<scen, demod, hist, wf, morse>>

TxStopTransmitting ==
    /\ app.name = "tx"
    /\ app' = stop_transmitting(app)
    /\ ev' = [op |-> "stop_transmitting", ret |-> FALSE, raised |-> FALSE,
              t |-> app, frequency |-> app.center_frequency]
    /\ UNCHANGED <<scen, demod, hist, wf, morse>>

\* the caller sets config.tx_enabled, as the constructor's warning asks
TxSetEnabled ==
    \E enabled \in BOOLEAN :
        /\ app.name = "tx"
        /\ app' = [app EXCEPT !.tx_enabled = enabled]
        /\ ev' = [op |-> "tx_enabled", ret |-> FALSE, raised |-> FALSE,
                  t |-> app, frequency |-> app.center_frequency]
        /\ UNCHANGED <<scen, demod, hist, wf, morse>>

NextTx ==
    \/ TxOpen \/ TxClose \/ TxSetFrequency \/ TxStartTransmitting
    \/ TxStopTransmitting \/ TxSetEnabled

SpecTx == InitTx /\ [][NextTx]_vars

\* the frequency lies inside one of the bands
InBand(bands, frequency) ==
    \E i \in 1 .. Len(bands) : bands[i][1] < frequency /\ frequency < bands[i][2]

=============================================================================
